---- MODULE Spec2Model ----
(***************************************************************************)
(* The message-handling pipeline of the Emponyoo WhatsApp assistant (the   *)
(* microservice edition of bot.js): the per-chat state (rolling history,   *)
(* quick replies, response log, cooldown stamps), the 'message' handler    *)
(* with its suspension points, the keyword matcher and the memory recall.  *)
(*                                                                         *)
(* Texts the code inspects character by character are sequences of         *)
(* one-character strings; texts it only stores, compares or sends are      *)
(* strings, and Chars gives the characters of a user text.                 *)
(***************************************************************************)
EXTENDS Integers, Sequences, FiniteSets, TLC

VARIABLES
    now,            \* Date.now(), in ticks
    chatCooldowns,  \* chatCooldowns: chat id -> last stamp (0: no entry)
    chatCache,      \* chatCache: chat id -> [present, history, quickReplies]
    allResponses,   \* allResponses: chat id -> [present, records]
    h,              \* the 'message' handler invocations in flight, one per slot
    received,       \* number of 'message' events delivered so far
    process,        \* the Node process of the bot: "running" or "exited"
    probe           \* inputs and result of a pure function under check

vars == <<now, chatCooldowns, chatCache, allResponses, h, received, process, probe>>

(***************************************************************************)
(* Bounds of the model                                                     *)
(***************************************************************************)
MaxInFlight == 2        \* handler invocations in flight at the same time
MaxMessages == 2        \* 'message' events per behaviour
MaxLiveMessages == 1    \* 'message' events per behaviour under the fairness conditions
MaxProbeRules == 2      \* rules in a probed rule table
MaxProbeText == 3       \* characters in a probed text
MaxProbeWords == 3      \* words in a probed query
MaxProbeEntryWords == 2 \* words in a probed history entry
MaxProbeHistory == 2    \* entries in a probed history

(***************************************************************************)
(* Characters and strings                                                  *)
(***************************************************************************)
UpperCase ==
    <<"A","B","C","D","E","F","G","H","I","J","K","L","M",
      "N","O","P","Q","R","S","T","U","V","W","X","Y","Z">>

LowerCase ==
    <<"a","b","c","d","e","f","g","h","i","j","k","l","m",
      "n","o","p","q","r","s","t","u","v","w","x","y","z">>

Digits == {"0","1","2","3","4","5","6","7","8","9"}

Range(s) == { s[i] : i \in DOMAIN s }

IsUpper(c) == \E i \in DOMAIN UpperCase : UpperCase[i] = c

ToLowerChar(c) ==
    IF IsUpper(c) THEN LowerCase[CHOOSE i \in DOMAIN UpperCase : UpperCase[i] = c] ELSE c

\* String.prototype.toLowerCase
ToLowerCase(t) == [i \in DOMAIN t |-> ToLowerChar(t[i])]

\* \s of a regular expression
IsSpace(c) == c \in {" ", "\t", "\n", "\r"}

\* \d and \w of a regular expression
IsDigit(c) == c \in Digits

IsWordChar(c) == c \in Range(UpperCase) \cup Range(LowerCase) \cup Digits \cup {"_"}

\* String.prototype.startsWith
StartsWith(t, p) == Len(t) >= Len(p) /\ SubSeq(t, 1, Len(p)) = p

\* String.prototype.includes
Includes(t, k) == \E i \in 1..(Len(t) - Len(k) + 1) : SubSeq(t, i, i + Len(k) - 1) = k

RECURSIVE TrimStart(_)
TrimStart(t) == IF t # <<>> /\ IsSpace(t[1]) THEN TrimStart(Tail(t)) ELSE t

RECURSIVE TrimEnd(_)
TrimEnd(t) ==
    IF t # <<>> /\ IsSpace(t[Len(t)]) THEN TrimEnd(SubSeq(t, 1, Len(t) - 1)) ELSE t

\* String.prototype.trim
Trim(t) == TrimEnd(TrimStart(t))

\* Array.prototype.slice(-n)
SliceLast(s, n) == IF Len(s) > n THEN SubSeq(s, Len(s) - n + 1, Len(s)) ELSE s

(***************************************************************************)
(* config.js                                                               *)
(***************************************************************************)
BOT_NAME == <<"E","m","p","o","n","y","o","o">>

COMMAND_PREFIX == <<"!">>

STOPWORDS == {
    <<"t","h","e">>, <<"a","n","d">>, <<"f","o","r">>, <<"a","r","e">>, <<"b","u","t">>,
    <<"y","o","u">>, <<"y","o","u","r">>, <<"w","i","t","h">>, <<"t","h","i","s">>,
    <<"t","h","a","t">>, <<"h","a","v","e">>, <<"f","r","o","m">>, <<"w","h","a","t">>,
    <<"w","h","e","n">>, <<"w","h","e","r","e">>, <<"w","h","o">>, <<"w","h","y">>,
    <<"h","o","w">>, <<"w","h","i","c","h">>, <<"b","e","e","n">>, <<"w","e","r","e">>,
    <<"w","i","l","l">>, <<"w","o","u","l","d">>, <<"c","o","u","l","d">>,
    <<"s","h","o","u","l","d">>, <<"a","b","o","u","t">>, <<"t","h","e","r","e">>,
    <<"h","e","r","e">>, <<"t","h","e","y">>, <<"t","h","e","m">>, <<"t","h","e","i","r">>,
    <<"o","u","r","s">>, <<"o","u","r","s","e","l","v","e","s">>, <<"h","i","m">>,
    <<"h","e","r">>, <<"h","i","s">>, <<"h","e","r","s">>, <<"i","t","s">>, <<"o","u","r">>,
    <<"o","u","t">>, <<"i","n","t","o">>, <<"o","n","t","o">>, <<"b","e","c","a","u","s","e">>,
    <<"c","a","n">> }

SAFE_FAILURE_MESSAGE == "I'm sorry, but I can't help with that."

(***************************************************************************)
(* Response payloads: what findKeywordResponse returns and sendWithTyping  *)
(* sends. kind "string" is a plain JavaScript string, kind "object" a      *)
(* normalised payload, kind "null" the absence of a reply.                 *)
(***************************************************************************)
Payload(kind, text, caption, mediaUrl, stickerUrl, sendAsSticker, mediaBase64, mentions) ==
    [kind |-> kind, text |-> text, caption |-> caption, mediaUrl |-> mediaUrl,
     stickerUrl |-> stickerUrl, sendAsSticker |-> sendAsSticker,
     mediaBase64 |-> mediaBase64, mentions |-> mentions]

NullPayload == Payload("null", "", "", "", "", FALSE, "", 0)

StringPayload(s) == Payload("string", s, "", "", "", FALSE, "", 0)

TextPayload(s) == Payload("object", s, "", "", "", FALSE, "", 0)

\* hasResponseContent(response)
hasResponseContent(response) ==
    CASE response.kind = "null" -> FALSE
      [] response.kind = "string" -> response.text # ""
      [] OTHER -> \/ response.text # ""
                  \/ response.caption # ""
                  \/ response.mediaUrl # ""
                  \/ response.stickerUrl # ""

(***************************************************************************)
(* Keyword matcher                                                         *)
(***************************************************************************)
\* the callback of keywords.some(...) in findKeywordResponse
KeywordHits(text, keyword, caseSensitive) ==
    /\ Trim(keyword) # <<>>
    /\ IF caseSensitive
       THEN Includes(text, keyword)
       ELSE Includes(ToLowerCase(text), ToLowerCase(keyword))

entryMatches(text, entry) ==
    /\ Len(entry.keywords) > 0
    /\ hasResponseContent(entry.response)
    /\ \E k \in DOMAIN entry.keywords :
          KeywordHits(text, entry.keywords[k], entry.caseSensitive)

\* a mutant of findKeywordFrom: the rule with the most keyword hits wins
findKeywordBest(text, entries, i) ==
    LET hits(j) == Cardinality({ k \in DOMAIN entries[j].keywords :
                       KeywordHits(text, entries[j].keywords[k], entries[j].caseSensitive) })
        matching == { j \in DOMAIN entries : entryMatches(text, entries[j]) }
    IN  IF matching = {} THEN NullPayload
        ELSE entries[CHOOSE j \in matching :
                        \A j2 \in matching : hits(j) > hits(j2) \/ (hits(j) = hits(j2) /\ j >= j2)].response

\* the for loop of findKeywordResponse, from entry i on
RECURSIVE findKeywordFrom(_, _, _)
findKeywordFrom(text, entries, i) ==
    IF i > Len(entries) THEN NullPayload
    ELSE IF entryMatches(text, entries[i])
         THEN IF entries[i].response.kind = "string"
              THEN TextPayload(entries[i].response.text)
              ELSE entries[i].response
         ELSE findKeywordFrom(text, entries, i + 1)

\* findKeywordResponse(text, entries); NullPayload is null
findKeywordResponse(text, entries) ==
    IF text = <<>> \/ Len(entries) = 0 THEN NullPayload
    ELSE findKeywordFrom(text, entries, 1)

(***************************************************************************)
(* Memory recall                                                           *)
(***************************************************************************)
\* the character class replaced by a space in extractKeywords (the backquote, which no
\* text of the model contains, cannot be written in a TLA+ string)
KeywordPunctuation ==
    {"\"", "'", ",", ".", "!", "?", ";", ":", "(", ")", "[", "]", "{", "}", "<", ">",
     "@", "#", "%", "^", "&", "*", "_", "+", "=", "/", "\\", "|", "-"}

\* .split(/\s+/) after the punctuation has become spaces: the runs of other characters
RECURSIVE SplitWords(_, _, _)
SplitWords(t, i, cur) ==
    IF i > Len(t) THEN (IF cur = <<>> THEN <<>> ELSE <<cur>>)
    ELSE IF IsSpace(t[i]) \/ t[i] \in KeywordPunctuation
         THEN (IF cur = <<>> THEN <<>> ELSE <<cur>>) \o SplitWords(t, i + 1, <<>>)
         ELSE SplitWords(t, i + 1, Append(cur, t[i]))

\* extractKeywords(text): the words kept, in order, repetitions included
extractKeywords(text) ==
    SelectSeq(SplitWords(ToLowerCase(text), 1, <<>>),
              LAMBDA word : Len(word) > 2 /\ word \notin STOPWORDS)

\* the inner for loop of findMemoryAnswer: one count per word of the entry found in the set
entryOverlap(entryKeywords, keywordSet) ==
    Cardinality({ k \in DOMAIN entryKeywords : entryKeywords[k] \in keywordSet })

\* a mutant of memoryScan: of the entries of the highest score the latest is kept
RECURSIVE memoryScanLatest(_, _, _, _, _)
memoryScanLatest(history, keywordSet, i, bestMatch, bestOverlap) ==
    IF i > Len(history) THEN [match |-> bestMatch, overlap |-> bestOverlap]
    ELSE LET entry == history[i]
             entryKeywords == extractKeywords(entry.content)
             overlap == entryOverlap(entryKeywords, keywordSet)
         IN  IF entry.role # "user" \/ Len(entryKeywords) = 0 \/ overlap = 0
             THEN memoryScanLatest(history, keywordSet, i + 1, bestMatch, bestOverlap)
             ELSE IF overlap >= bestOverlap
                  THEN memoryScanLatest(history, keywordSet, i + 1, i, overlap)
                  ELSE memoryScanLatest(history, keywordSet, i + 1, bestMatch, bestOverlap)

\* the scan of findMemoryAnswer over history entries i.., with the best entry so far
\* (0: none) and its overlap; scores share the denominator keywordSet.size, so the
\* comparison of scores is the comparison of overlaps
RECURSIVE memoryScan(_, _, _, _, _)
memoryScan(history, keywordSet, i, bestMatch, bestOverlap) ==
    IF i > Len(history) THEN [match |-> bestMatch, overlap |-> bestOverlap]
    ELSE LET entry == history[i]
             entryKeywords == extractKeywords(entry.content)
             overlap == entryOverlap(entryKeywords, keywordSet)
         IN  IF entry.role # "user" \/ Len(entryKeywords) = 0 \/ overlap = 0
             THEN memoryScan(history, keywordSet, i + 1, bestMatch, bestOverlap)
             ELSE IF overlap > bestOverlap
                  THEN memoryScan(history, keywordSet, i + 1, i, overlap)
                  ELSE memoryScan(history, keywordSet, i + 1, bestMatch, bestOverlap)

\* the two threshold tests of findMemoryAnswer on bestScore = overlap / size:
\* bestScore < 0.6 is 10 * overlap < 6 * size, bestScore < 0.34 is 100 * overlap < 34 * size
memoryAccepts(keywordCount, overlap, size) ==
    /\ ~(keywordCount <= 2 /\ 10 * overlap < 6 * size)
    /\ ~(keywordCount > 2 /\ 100 * overlap < 34 * size)

\* findMemoryAnswer on a history of [role, content]: the index of the entry quoted, 0 for null
findMemoryMatch(history, message) ==
    LET keywords == extractKeywords(message)
        keywordSet == Range(keywords)
        best == memoryScan(history, keywordSet, 1, 0, 0)
    IN  IF Len(keywords) = 0 THEN 0
        ELSE IF best.match = 0 THEN 0
        ELSE IF memoryAccepts(Len(keywords), best.overlap, Cardinality(keywordSet))
             THEN best.match
             ELSE 0

\* `Earlier you mentioned: "${bestMatch.content}"` on the characters of the content,
\* <<>> for null
memoryAnswerText(history, match) ==
    IF match = 0 THEN <<>>
    ELSE <<"E","a","r","l","i","e","r"," ","y","o","u"," ",
           "m","e","n","t","i","o","n","e","d",":"," ","\"">>
         \o history[match].content \o <<"\"">>

(***************************************************************************)
(* The texts of the model. A user text is a string with its characters;    *)
(* Str finds the string of a character sequence the handler has computed.  *)
(***************************************************************************)
LongText == "aaaaaaaaaaaaaaa"

UserTexts ==
    {"hi", "gif", "pic", "trail maps", "send badword", "123-45-6789", LongText,
     "!reset", "!help", "Emponyoo hi", "Emponyoo", "lol", "boo", "everyone",
     "hello all", "@5 hi", "hello", "!help 1234567890123", "everyone aaaaa", "lol badword",
     "!history", "AI reply", "AI bad reply", " AI reply ", "   "}

Chars(s) ==
    CASE s = "" -> <<>>
      [] s = "hi" -> <<"h","i">>
      [] s = "gif" -> <<"g","i","f">>
      [] s = "pic" -> <<"p","i","c">>
      [] s = "trail maps" -> <<"t","r","a","i","l"," ","m","a","p","s">>
      [] s = "send badword" -> <<"s","e","n","d"," ","b","a","d","w","o","r","d">>
      [] s = "123-45-6789" -> <<"1","2","3","-","4","5","-","6","7","8","9">>
      [] s = LongText -> <<"a","a","a","a","a","a","a","a","a","a","a","a","a","a","a">>
      [] s = "!reset" -> <<"!","r","e","s","e","t">>
      [] s = "!help" -> <<"!","h","e","l","p">>
      [] s = "Emponyoo hi" -> <<"E","m","p","o","n","y","o","o"," ","h","i">>
      [] s = "Emponyoo" -> <<"E","m","p","o","n","y","o","o">>
      [] s = "lol" -> <<"l","o","l">>
      [] s = "boo" -> <<"b","o","o">>
      [] s = "everyone" -> <<"e","v","e","r","y","o","n","e">>
      [] s = "hello all" -> <<"h","e","l","l","o"," ","a","l","l">>
      [] s = "@5 hi" -> <<"@","5"," ","h","i">>
      [] s = "hello" -> <<"h","e","l","l","o">>
      [] s = "!help 1234567890123" ->
             <<"!","h","e","l","p"," ","1","2","3","4","5","6","7","8","9","0","1","2","3">>
      [] s = "everyone aaaaa" -> <<"e","v","e","r","y","o","n","e"," ","a","a","a","a","a">>
      [] s = "lol badword" -> <<"l","o","l"," ","b","a","d","w","o","r","d">>
      [] s = "!history" -> <<"!","h","i","s","t","o","r","y">>
      [] s = "!stats" -> <<"!","s","t","a","t","s">>
      [] s = "!quickreplies" -> <<"!","q","u","i","c","k","r","e","p","l","i","e","s">>
      [] s = "!" -> <<"!">>
      [] s = "!image pic" -> <<"!","i","m","a","g","e"," ","p","i","c">>
      [] s = "AI reply" -> <<"A","I"," ","r","e","p","l","y">>
      [] s = "AI bad reply" -> <<"A","I"," ","b","a","d"," ","r","e","p","l","y">>
      [] s = " AI reply " -> <<" ","A","I"," ","r","e","p","l","y"," ">>
      [] s = "   " -> <<" "," "," ">>

Str(cs) == CHOOSE s \in UserTexts \cup {""} : Chars(s) = cs

PrivateChats == {"p1@s.whatsapp.net"}

GroupChats == {"g1@g.us"}

ChatIds == PrivateChats \cup GroupChats

\* the message bodies a chat may receive; MentionsBot: message.mentionedIds holds selfId,
\* which the 'ready' event has set
PrivateBodies ==
    {"hi", "gif", "pic", "trail maps", "send badword", "123-45-6789", LongText,
     "!reset", "!help", "hello", "!help 1234567890123"}

GroupBodies ==
    {"Emponyoo hi", "Emponyoo", "lol", "boo", "everyone", "hello all", "@5 hi",
     "everyone aaaaa", "lol badword"}

BodiesOf(chatId) == IF chatId \in GroupChats THEN GroupBodies ELSE PrivateBodies

MentionsBot(body) == body = "@5 hi"

(***************************************************************************)
(* config.js: limits, scaled to the model                                  *)
(***************************************************************************)
RATE_LIMIT_MS == 1

\* the last tick of the clock: one cooldown window after the start
MaxTime == RATE_LIMIT_MS + 1

MAX_MESSAGE_LENGTH == 12

MAX_SAVED_HISTORY == 4

MAX_SAVED_RESPONSES == 3

MAX_SAVED_QUICK_REPLIES == 2

\* CONTEXT_LIMIT of config.js and Bot::CONTEXT_LIMIT of the PHP edition
CONTEXT_LIMIT == 1

(***************************************************************************)
(* Canned replies; a dash or a sign outside ASCII is left out or written    *)
(* in ASCII                                                                *)
(***************************************************************************)
\* buildLengthWarning(), with the name of the limit for its value
LengthWarning == "That message is quite long. Please keep it under MAX_MESSAGE_LENGTH characters so I can help effectively."

RateLimitReply == "I'm wrapping up another request - please try again in a moment."

ResetReply == "Our conversation history has been cleared. Feel free to start fresh!"

\* buildHelpMessage(): its first line stands for the list
HelpReply == "Here's what I can do:"

UnknownCommandReply == "I don't recognise that command. Try !help for a list of available commands."

EmptyCommandReply == "Try !help for a list of available commands."

\* the first lines of formatHistorySummary, buildQuickRepliesMessage and buildStatsMessage
NoHistoryReply == "There's no saved conversation history yet."

HistoryReply == "Here's the latest context I'm using:"

NoQuickRepliesReply == "I haven't used any quick replies in this chat yet. Say hello and I will remember it!"

QuickRepliesReply == "Here are the quick replies I've used in this chat:"

StatsReply == "Here's what I have on record for this chat:"

NoMentionsReply == "I couldn't find anyone to mention in this group."

\* validMentions.map((entry) => entry.placeholder).join(' ') for two participants
MentionText == "@111 @222"

ApologyReply == "Sorry, I couldn't process that."

CardWarning == "For your safety, please avoid sharing payment card numbers here. If you need help, try describing the situation without sensitive details."

IdWarning == "I spotted something that looks like a personal identification number. Please keep that private and share only non-sensitive information."

\* the replies the chat-completion collaborator gives in the model
AIReplies == {"AI reply", "AI bad reply"}

\* `Earlier you mentioned: "${bestMatch.content}"`
MemoryReply(content) ==
    CASE content = "trail maps" -> "Earlier you mentioned: \"trail maps\""
      [] content = "hi" -> "Earlier you mentioned: \"hi\""
      [] content = "gif" -> "Earlier you mentioned: \"gif\""
      [] content = "pic" -> "Earlier you mentioned: \"pic\""
      [] content = "send badword" -> "Earlier you mentioned: \"send badword\""
      [] content = "Emponyoo" -> "Earlier you mentioned: \"Emponyoo\""
      [] content = "everyone" -> "Earlier you mentioned: \"everyone\""
      [] content = "lol" -> "Earlier you mentioned: \"lol\""
      [] content = "boo" -> "Earlier you mentioned: \"boo\""
      [] content = "123-45-6789" -> "Earlier you mentioned: \"123-45-6789\""
      [] content = LongText -> "Earlier you mentioned: \"aaaaaaaaaaaaaaa\""
      [] content = "hello" -> "Earlier you mentioned: \"hello\""
      [] content = "everyone aaaaa" -> "Earlier you mentioned: \"everyone aaaaa\""
      [] content = "lol badword" -> "Earlier you mentioned: \"lol badword\""

\* the verdict of the moderation collaborator on a text, when it answers
FlaggedTexts == {"send badword", "lol badword", "AI bad reply", "Rude reply"}

ModerationFlags(text) == text \in FlaggedTexts

(***************************************************************************)
(* The rule tables of the deployment, as normalisePredefinedEntry keeps    *)
(* them: memory.predefinedResponses and generalResponses                   *)
(***************************************************************************)
predefinedResponses ==
    << [keywords |-> <<Chars("hi")>>, caseSensitive |-> FALSE,
        response |-> TextPayload("Hello!")],
       [keywords |-> <<Chars("gif")>>, caseSensitive |-> FALSE,
        response |-> Payload("object", "Have a sticker", "", "", "https://cdn/s.webp", TRUE, "", 0)],
       [keywords |-> <<Chars("pic")>>, caseSensitive |-> FALSE,
        response |-> Payload("object", "", "", "https://cdn/p.png", "", FALSE, "", 0)] >>

generalResponses ==
    << [keywords |-> <<Chars("lol")>>, caseSensitive |-> FALSE,
        response |-> TextPayload("Ha ha")],
       [keywords |-> <<Chars("boo")>>, caseSensitive |-> FALSE,
        response |-> TextPayload("Rude reply")] >>

\* getPredefinedReply(text), getGeneralReply(text)
getPredefinedReply(text) == findKeywordResponse(Chars(text), predefinedResponses)

getGeneralReply(text) == findKeywordResponse(Chars(text), generalResponses)

(***************************************************************************)
(* Safety filter                                                           *)
(***************************************************************************)
\* \b at position i of t: between t[i-1] and t[i]
WordBoundary(t, i) ==
    LET before == i > 1 /\ i - 1 <= Len(t) /\ IsWordChar(t[i - 1])
        after == i >= 1 /\ i <= Len(t) /\ IsWordChar(t[i])
    IN  before # after

AllDigits(t, i, n) == i + n - 1 <= Len(t) /\ \A j \in i..(i + n - 1) : IsDigit(t[j])

IsCardSeparator(t, i) == i <= Len(t) /\ t[i] \in {" ", "-"}

\* /\b\d{3}[- ]?\d{2}[- ]?\d{4}\b/ matching at position i
NationalIdAt(t, i) ==
    /\ WordBoundary(t, i)
    /\ AllDigits(t, i, 3)
    /\ \E s1 \in {0, 1}, s2 \in {0, 1} :
          /\ s1 = 1 => IsCardSeparator(t, i + 3)
          /\ AllDigits(t, i + 3 + s1, 2)
          /\ s2 = 1 => IsCardSeparator(t, i + 5 + s1)
          /\ AllDigits(t, i + 5 + s1 + s2, 4)
          /\ WordBoundary(t, i + 9 + s1 + s2)

\* (?:\d[ -]*?){least,most}\b from position i on
RECURSIVE CardGroups(_, _, _, _)
CardGroups(t, i, least, most) ==
    \/ least <= 0 /\ WordBoundary(t, i)
    \/ /\ most > 0
       /\ i <= Len(t)
       /\ IsDigit(t[i])
       /\ \E k \in 0..(Len(t) - i) :
             /\ \A j \in (i + 1)..(i + k) : IsCardSeparator(t, j)
             /\ CardGroups(t, i + 1 + k, least - 1, most - 1)

\* /\b(?:\d[ -]*?){13,19}\b/ matching at position i
PaymentCardAt(t, i) == WordBoundary(t, i) /\ CardGroups(t, i, 13, 19)

\* checkSensitivePatterns(text): the warning of the first pattern that matches, "" for null
checkSensitivePatterns(s) ==
    LET t == Chars(s)
    IN  IF s = "" THEN ""
        ELSE IF \E i \in 1..Len(t) : PaymentCardAt(t, i) THEN CardWarning
        ELSE IF \E i \in 1..Len(t) : NationalIdAt(t, i) THEN IdWarning
        ELSE ""

\* the test of isRateLimited(chatId): Date.now() - last < RATE_LIMIT_MS
isRateLimitedAt(last, t) == t - last < RATE_LIMIT_MS

(***************************************************************************)
(* Conversation state store                                                *)
(***************************************************************************)
NoChatState == [present |-> FALSE, history |-> <<>>, quickReplies |-> <<>>]

NoResponses == [present |-> FALSE, records |-> <<>>]

\* the entries hydrateChatState pushes for one record
HistoryOf(entry) ==
    (IF entry.message # "" THEN <<[role |-> "user", content |-> entry.message]>> ELSE <<>>)
    \o (IF entry.reply # "" THEN <<[role |-> "assistant", content |-> entry.reply]>> ELSE <<>>)

QuickReplyOf(entry) ==
    IF entry.source = "predefined" /\ entry.reply # ""
    THEN <<[userMessage |-> entry.message, reply |-> entry.reply, timestamp |-> entry.timestamp]>>
    ELSE <<>>

\* the for loop of hydrateChatState from record i on: what it pushes to history
RECURSIVE HistoryFrom(_, _)
HistoryFrom(records, i) ==
    IF i > Len(records) THEN <<>> ELSE HistoryOf(records[i]) \o HistoryFrom(records, i + 1)

\* the for loop of hydrateChatState from record i on: what it pushes to quickReplies
RECURSIVE QuickRepliesFrom(_, _)
QuickRepliesFrom(records, i) ==
    IF i > Len(records) THEN <<>>
    ELSE QuickReplyOf(records[i]) \o QuickRepliesFrom(records, i + 1)

\* a mutant of TrimTo: the oldest entries are kept and the newest dropped
TrimToOldest(s, n) == IF Len(s) > n THEN SubSeq(s, 1, n) ELSE s

\* the trim of a list to its cap: list.slice(-cap)
TrimTo(s, n) == SliceLast(s, n)

\* hydrateChatState(chatId)
hydrateChatState(records) ==
    [present |-> TRUE,
     history |-> TrimTo(HistoryFrom(records, 1), MAX_SAVED_HISTORY),
     quickReplies |-> TrimTo(QuickRepliesFrom(records, 1), MAX_SAVED_QUICK_REPLIES)]

\* getChatState(chatId): the chat's state, and chatCache after the call
getChatState(cache, responses, chatId) ==
    IF cache[chatId].present THEN cache[chatId] ELSE hydrateChatState(responses[chatId].records)

cacheAfterGet(cache, responses, chatId) ==
    [cache EXCEPT ![chatId] = getChatState(cache, responses, chatId)]

\* a mutant of appendResponse: a log over its cap drops the record just pushed
appendResponseKeepsOldest(responses, chatId, record) ==
    IF record.message = "" /\ record.reply = ""
    THEN [responses EXCEPT ![chatId] = [present |-> TRUE, records |-> @.records]]
    ELSE [responses EXCEPT ![chatId] =
             [present |-> TRUE,
              records |-> TrimToOldest(Append(@.records, record), MAX_SAVED_RESPONSES)]]

\* appendResponse(chatId, record), the record normalised by normaliseResponseRecord
appendResponse(responses, chatId, record) ==
    IF record.message = "" /\ record.reply = ""
    THEN [responses EXCEPT ![chatId] = [present |-> TRUE, records |-> @.records]]
    ELSE [responses EXCEPT ![chatId] =
             [present |-> TRUE,
              records |-> TrimTo(Append(@.records, record), MAX_SAVED_RESPONSES)]]

\* a mutant of quickReplySources: every source is kept as a quick reply
quickReplySourcesAll ==
    {"predefined", "general", "memory", "openai", "mention-all", "safety", "system"}

\* the sources recordInteraction keeps as quick replies
quickReplySources == {"predefined"}

\* a mutant of recordInCache: the history is cut one entry below its cap
recordInCacheCutsShort(cache, responses, chatId, userMessage, reply, source, timestamp) ==
    LET chatState == getChatState(cache, responses, chatId)
        pushed == chatState.history
                    \o (IF userMessage # "" THEN <<[role |-> "user", content |-> userMessage]>>
                        ELSE <<>>)
                    \o (IF reply # "" THEN <<[role |-> "assistant", content |-> reply]>>
                        ELSE <<>>)
        quick == IF source \in quickReplySources /\ userMessage # "" /\ reply # ""
                 THEN TrimTo(Append(chatState.quickReplies,
                                    [userMessage |-> userMessage, reply |-> reply,
                                     timestamp |-> timestamp]),
                             MAX_SAVED_QUICK_REPLIES)
                 ELSE chatState.quickReplies
    IN  [cache EXCEPT ![chatId] =
            [present |-> TRUE,
             history |-> TrimTo(pushed, MAX_SAVED_HISTORY - 1),
             quickReplies |-> quick]]

\* recordInteraction(chatId, userMessage, reply, source): chatCache afterwards
recordInCache(cache, responses, chatId, userMessage, reply, source, timestamp) ==
    LET chatState == getChatState(cache, responses, chatId)
        pushed == chatState.history
                    \o (IF userMessage # "" THEN <<[role |-> "user", content |-> userMessage]>>
                        ELSE <<>>)
                    \o (IF reply # "" THEN <<[role |-> "assistant", content |-> reply]>>
                        ELSE <<>>)
        quick == IF source \in quickReplySources /\ userMessage # "" /\ reply # ""
                 THEN TrimTo(Append(chatState.quickReplies,
                                    [userMessage |-> userMessage, reply |-> reply,
                                     timestamp |-> timestamp]),
                             MAX_SAVED_QUICK_REPLIES)
                 ELSE chatState.quickReplies
    IN  [cache EXCEPT ![chatId] =
            [present |-> TRUE,
             history |-> TrimTo(pushed, MAX_SAVED_HISTORY),
             quickReplies |-> quick]]

\* a mutant of recordInResponses: the record replaces the log it is appended to
recordInResponsesAlone(responses, chatId, userMessage, reply, source, timestamp) ==
    [responses EXCEPT ![chatId] =
        [present |-> TRUE,
         records |-> <<[message |-> userMessage, reply |-> reply, source |-> source,
                        timestamp |-> timestamp]>>]]

\* recordInteraction(chatId, userMessage, reply, source): allResponses afterwards
recordInResponses(responses, chatId, userMessage, reply, source, timestamp) ==
    appendResponse(responses, chatId,
                   [message |-> userMessage, reply |-> reply, source |-> source,
                    timestamp |-> timestamp])

\* a mutant of resetCache: the quick replies survive the reset
resetCacheKeepQuick(cache, chatId) ==
    [cache EXCEPT ![chatId] = [present |-> TRUE, history |-> <<>>, quickReplies |-> @.quickReplies]]

\* case 'reset' of handleCommand: chatCache and allResponses afterwards
resetCache(cache, chatId) ==
    [cache EXCEPT ![chatId] = [present |-> TRUE, history |-> <<>>, quickReplies |-> <<>>]]

resetResponses(responses, chatId) ==
    IF responses[chatId].present THEN [responses EXCEPT ![chatId] = NoResponses] ELSE responses

(***************************************************************************)
(* Eligibility: bot name and mentions in a group message                   *)
(***************************************************************************)
\* BOT_NAME_REGEX = /\bEmponyoo\b[,\s]*/i: the name, as a word, starts at position i
BotNameAt(t, i) ==
    /\ i + Len(BOT_NAME) - 1 <= Len(t)
    /\ ToLowerCase(SubSeq(t, i, i + Len(BOT_NAME) - 1)) = ToLowerCase(BOT_NAME)
    /\ WordBoundary(t, i)
    /\ WordBoundary(t, i + Len(BOT_NAME))

\* BOT_NAME_REGEX.test(rawBody)
BotNameTest(t) == \E i \in 1..Len(t) : BotNameAt(t, i)

\* the [,\s]* after the name: the first position from i on that is neither
RECURSIVE SkipCommasAndSpaces(_, _)
SkipCommasAndSpaces(t, i) ==
    IF i <= Len(t) /\ (t[i] = "," \/ IsSpace(t[i])) THEN SkipCommasAndSpaces(t, i + 1) ELSE i

\* rawBody.replace(BOT_NAME_REPLACE_REGEX, ''), from position i on
RECURSIVE RemoveBotName(_, _)
RemoveBotName(t, i) ==
    IF i > Len(t) THEN <<>>
    ELSE IF BotNameAt(t, i)
         THEN RemoveBotName(t, SkipCommasAndSpaces(t, i + Len(BOT_NAME)))
         ELSE <<t[i]>> \o RemoveBotName(t, i + 1)

\* the \S+ after an @: the first position from i on that is a space
RECURSIVE SkipNonSpaces(_, _)
SkipNonSpaces(t, i) == IF i <= Len(t) /\ ~IsSpace(t[i]) THEN SkipNonSpaces(t, i + 1) ELSE i

\* rawBody.replace(/@\S+/g, ' '), from position i on
RECURSIVE ReplaceMentions(_, _)
ReplaceMentions(t, i) ==
    IF i > Len(t) THEN <<>>
    ELSE IF t[i] = "@" /\ i < Len(t) /\ ~IsSpace(t[i + 1])
         THEN <<" ">> \o ReplaceMentions(t, SkipNonSpaces(t, i + 1))
         ELSE <<t[i]>> \o ReplaceMentions(t, i + 1)

\* .replace(/\s+/g, ' '), from position i on
RECURSIVE CollapseSpaces(_, _)
CollapseSpaces(t, i) ==
    IF i > Len(t) THEN <<>>
    ELSE IF IsSpace(t[i])
         THEN (IF i > 1 /\ IsSpace(t[i - 1]) THEN <<>> ELSE <<" ">>) \o CollapseSpaces(t, i + 1)
         ELSE <<t[i]>> \o CollapseSpaces(t, i + 1)

\* the head of the 'message' handler: shouldRespond and cleanMessage
Eligibility(chatId, rawBody, mentionsBot) ==
    LET raw == Chars(rawBody)
        trimmed == Trim(raw)
        withoutName == Trim(RemoveBotName(raw, 1))
        withoutMentions == Trim(CollapseSpaces(ReplaceMentions(raw, 1), 1))
    IN  IF chatId \in PrivateChats
        THEN [shouldRespond |-> TRUE, cleanMessage |-> trimmed]
        ELSE IF BotNameTest(raw)
             THEN [shouldRespond |-> TRUE,
                   cleanMessage |-> IF withoutName # <<>> THEN withoutName ELSE trimmed]
             ELSE IF mentionsBot
                  THEN [shouldRespond |-> TRUE,
                        cleanMessage |-> IF withoutMentions # <<>> THEN withoutMentions
                                         ELSE trimmed]
                  ELSE [shouldRespond |-> FALSE, cleanMessage |-> trimmed]

\* /^[\s,.!?:;\-]+/.test(remainder)
StartsWithSeparator(t) ==
    t # <<>> /\ (IsSpace(t[1]) \/ t[1] \in {",", ".", "!", "?", ":", ";", "-"})

\* isMentionAllTrigger(message)
isMentionAllTrigger(message) ==
    LET trimmed == ToLowerCase(Trim(message))
        everyone == <<"e","v","e","r","y","o","n","e">>
        prefixes == {<<"@">> \o everyone, everyone}
    IN  /\ trimmed # <<>>
        /\ \/ trimmed \in prefixes
           \/ \E prefix \in prefixes :
                 /\ StartsWith(trimmed, prefix)
                 /\ LET remainder == SubSeq(trimmed, Len(prefix) + 1, Len(trimmed))
                    IN  remainder = <<>> \/ StartsWithSeparator(remainder)

\* the command name of a command message: the first word after the prefix, lower-cased
CommandName(cleanMessage) ==
    LET commandBody == Trim(SubSeq(cleanMessage, Len(COMMAND_PREFIX) + 1, Len(cleanMessage)))
        stop == SkipNonSpaces(commandBody, 1)
    IN  ToLowerCase(SubSeq(commandBody, 1, stop - 1))

(***************************************************************************)
(* Sending                                                                 *)
(***************************************************************************)
\* getResponseText(response); the texts of the model carry no outer white space
getResponseText(response) ==
    CASE response.kind = "null" -> ""
      [] response.kind = "string" -> response.text
      [] response.text # "" -> response.text
      [] response.caption # "" -> response.caption
      [] OTHER -> ""

\* describeResponseForLog(response)
describeResponseForLog(response) ==
    IF getResponseText(response) # "" THEN getResponseText(response)
    ELSE IF response.kind = "object" /\ (response.stickerUrl # "" \/ response.sendAsSticker)
         THEN "[sticker]"
    ELSE IF response.kind = "object" /\ (response.mediaUrl # "" \/ response.mediaBase64 # "")
         THEN "[media]"
    ELSE "[response]"

\* the reply text the handler records: the string itself, or describeResponseForLog
RecordedReply(payload) ==
    IF payload.kind = "string" THEN payload.text ELSE describeResponseForLog(payload)

\* one successful message.reply(...)
SentText(text) == [type |-> "text", text |-> text]

SentMedia(caption) == [type |-> "media", text |-> caption]

SentSticker == [type |-> "sticker", text |-> ""]

Outcome(sent, threw, failed) == [sent |-> sent, threw |-> threw, failed |-> failed]

\* captionToUse = text || caption || undefined
CaptionToUse(p) == IF p.text # "" THEN p.text ELSE p.caption

\* the tail of sendWithTyping: the text send, whose failure leaves the function
FinalStage(p, sent, failed) ==
    LET textToSend == IF CaptionToUse(p) # "" THEN CaptionToUse(p)
                      ELSE IF p.mentions > 0 THEN MentionText
                      ELSE SAFE_FAILURE_MESSAGE
    IN  {Outcome(Append(sent, SentText(textToSend)), FALSE, failed), Outcome(sent, TRUE, TRUE)}

\* if (mediaUrl) { try ... catch }
MediaStage(p, sent, failed) ==
    IF p.mediaUrl # ""
    THEN {Outcome(Append(sent, SentMedia(CaptionToUse(p))), FALSE, failed)}
             \cup FinalStage(p, sent, TRUE)
    ELSE FinalStage(p, sent, failed)

\* a mutant of StickerStage: the caption of a sticker is dropped
StickerStageNoCaption(p, sent, failed) ==
    IF (p.stickerUrl # "" \/ p.sendAsSticker) /\ (p.stickerUrl # "" \/ p.mediaUrl # "")
    THEN {Outcome(Append(sent, SentSticker), FALSE, failed)} \cup MediaStage(p, sent, TRUE)
    ELSE MediaStage(p, sent, failed)

\* if ((stickerUrl || sendAsSticker) && (stickerUrl || mediaUrl)) { try ... catch }
StickerStage(p, sent, failed) ==
    IF (p.stickerUrl # "" \/ p.sendAsSticker) /\ (p.stickerUrl # "" \/ p.mediaUrl # "")
    THEN (IF CaptionToUse(p) # ""
          THEN {Outcome(sent \o <<SentSticker, SentText(CaptionToUse(p))>>, FALSE, failed)}
                   \cup MediaStage(p, Append(sent, SentSticker), TRUE)
          ELSE {Outcome(Append(sent, SentSticker), FALSE, failed)})
         \cup MediaStage(p, sent, TRUE)
    ELSE MediaStage(p, sent, failed)

\* if (mediaBase64) { try ... catch }
Base64Stage(p, sent, failed) ==
    IF p.mediaBase64 # ""
    THEN {Outcome(Append(sent, SentMedia(CaptionToUse(p))), FALSE, failed)}
             \cup StickerStage(p, sent, TRUE)
    ELSE StickerStage(p, sent, failed)

\* sendWithTyping(message, response) after the typing delay: what was sent, whether the
\* function threw, whether any transport call failed
sendWithTyping(response) ==
    CASE response.kind = "null" ->
             {Outcome(<<SentText(SAFE_FAILURE_MESSAGE)>>, FALSE, FALSE), Outcome(<<>>, TRUE, TRUE)}
      [] response.kind = "string" ->
             {Outcome(<<SentText(response.text)>>, FALSE, FALSE), Outcome(<<>>, TRUE, TRUE)}
      [] OTHER -> Base64Stage(response, <<>>, FALSE)

(***************************************************************************)
(* The state after construction                                            *)
(***************************************************************************)
Slots == 1..MaxInFlight

\* one invocation of the 'message' handler: its locals, and what it has done so far
IdleSlot ==
    [pc |-> "idle", chatId |-> "", rawBody |-> "", cleanMessage |-> "",
     shouldRespond |-> FALSE, path |-> "none", guard |-> "none",
     payload |-> NullPayload, candidate |-> "", source |-> "",
     modIn |-> "none", modOut |-> "none",
     cooling |-> FALSE,      \* the chat was inside its cooldown window when the message
                             \* arrived, or when the guards ran after the arrival
     memoryAsked |-> FALSE, chatAsked |-> FALSE,
     context |-> <<>>,       \* contextMessages of getAIReply between the system prompt and
                             \* the message: the history entries sent with the request
     arrival |-> 0,          \* the position of the 'message' event among those delivered
     sent |-> <<>>, threw |-> FALSE, failed |-> FALSE, stamped |-> FALSE, recorded |-> 0,
     escaped |-> FALSE]      \* an exception has left the listener of this invocation

NoProbe == [fn |-> "none"]

\* all_responses.json as normaliseAllResponses loads it: absent, or a log at its cap
SavedLogs ==
    { <<>>,
      << [message |-> "hi", reply |-> "Hello!", source |-> "predefined", timestamp |-> 0],
         [message |-> "pic", reply |-> "[media]", source |-> "predefined", timestamp |-> 0],
         [message |-> "trail maps", reply |-> "AI reply", source |-> "openai", timestamp |-> 0] >> }

PipelineIdle ==
    /\ now = RATE_LIMIT_MS
    /\ chatCooldowns = [c \in ChatIds |-> 0]
    /\ chatCache = [c \in ChatIds |-> NoChatState]
    /\ allResponses = [c \in ChatIds |-> NoResponses]
    /\ h = [m \in Slots |-> IdleSlot]
    /\ received = 0
    /\ process = "running"

pipelineVars == <<now, chatCooldowns, chatCache, allResponses, h, received, process>>

\* the bot after start-up: no message yet, all_responses.json loaded
PipelineStart ==
    /\ now = RATE_LIMIT_MS
    /\ chatCooldowns = [c \in ChatIds |-> 0]
    /\ chatCache = [c \in ChatIds |-> NoChatState]
    /\ \E saved \in SavedLogs :
          allResponses = [c \in ChatIds |->
                             IF c \in PrivateChats /\ saved # <<>>
                             THEN [present |-> TRUE, records |-> TrimTo(saved, MAX_SAVED_RESPONSES)]
                             ELSE NoResponses]
    /\ h = [m \in Slots |-> IdleSlot]
    /\ received = 0
    /\ process = "running"

Init == PipelineStart /\ probe = NoProbe

(***************************************************************************)
(* The 'message' handler, one action per stretch between two awaits        *)
(***************************************************************************)
\* the handler reaches `await sendWithTyping(message, payload)`
ToSend(s, payload, source, guard) ==
    [s EXCEPT !.pc = "send", !.payload = payload, !.source = source, !.guard = guard]

\* the moderation of the candidate reply, skipped when it has no displayable text
ToOutputModeration(s, payload, source) ==
    IF getResponseText(payload) # ""
    THEN [s EXCEPT !.pc = "modOut", !.payload = payload, !.source = source,
                   !.candidate = getResponseText(payload)]
    ELSE ToSend(s, payload, source, "none")

\* the guards up to `await moderateContent(cleanMessage, 'input')`: the slot and the
\* cooldowns afterwards (isRateLimited stamps the chat when it lets the message pass)
Guards(s, cooldowns, t) ==
    LET text == s.cleanMessage
        limited == isRateLimitedAt(cooldowns[s.chatId], t)
        s1 == [s EXCEPT !.cooling = t - cooldowns[s.chatId] < RATE_LIMIT_MS]
    IN  IF Len(Chars(text)) > MAX_MESSAGE_LENGTH
        THEN [slot |-> ToSend(s1, StringPayload(LengthWarning), "safety", "length"),
              cooldowns |-> cooldowns]
        ELSE IF checkSensitivePatterns(text) # ""
        THEN [slot |-> ToSend(s1, StringPayload(checkSensitivePatterns(text)), "safety", "sensitive"),
              cooldowns |-> cooldowns]
        ELSE IF limited
        THEN [slot |-> ToSend(s1, StringPayload(RateLimitReply), "system", "rate"),
              cooldowns |-> cooldowns]
        ELSE [slot |-> [s1 EXCEPT !.pc = "modIn"],
              cooldowns |-> [cooldowns EXCEPT ![s.chatId] = t]]

\* the commands of handleCommand that read the chat's state through getChatState, which
\* puts the hydrated state into chatCache
StateCommands ==
    {<<"h","i","s","t","o","r","y">>, <<"q","u","i","c","k","r","e","p","l","i","e","s">>,
     <<"s","t","a","t","s">>}

\* formatHistorySummary, buildQuickRepliesMessage, buildStatsMessage: the first line
commandReport(name, chatState) ==
    IF name = <<"h","i","s","t","o","r","y">>
    THEN (IF chatState.history = <<>> THEN NoHistoryReply ELSE HistoryReply)
    ELSE IF name = <<"q","u","i","c","k","r","e","p","l","i","e","s">>
    THEN (IF chatState.quickReplies = <<>> THEN NoQuickRepliesReply ELSE QuickRepliesReply)
    ELSE StatsReply

\* a mutant of CommandBranch: the command and its reply are recorded with the source command
CommandBranchRecorded(s, cooldowns, cache, responses) ==
    LET name == CommandName(Chars(s.cleanMessage))
        command == [s EXCEPT !.path = "command"]
    IN  [slot |-> ToSend(command, StringPayload(UnknownCommandReply), "command", "none"),
         cooldowns |-> cooldowns,
         cache |-> recordInCache(cache, responses, s.chatId, s.cleanMessage,
                                 UnknownCommandReply, "command", 0),
         responses |-> recordInResponses(responses, s.chatId, s.cleanMessage,
                                         UnknownCommandReply, "command", 0)]

\* a mutant of CommandBranch: reset answers and clears nothing
CommandBranchKeepsHistory(s, cooldowns, cache, responses) ==
    LET name == CommandName(Chars(s.cleanMessage))
        reply == IF name = <<>> THEN EmptyCommandReply
                 ELSE IF name = <<"r","e","s","e","t">> THEN ResetReply
                 ELSE IF name = <<"h","e","l","p">> THEN HelpReply
                 ELSE UnknownCommandReply
    IN  [slot |-> ToSend([s EXCEPT !.path = "command"], StringPayload(reply), "command", "none"),
         cooldowns |-> cooldowns, cache |-> cache, responses |-> responses]

\* the command branch of the handler with handleCommand, up to `await sendWithTyping`
CommandBranch(s, cooldowns, cache, responses) ==
    LET name == CommandName(Chars(s.cleanMessage))
        command == [s EXCEPT !.path = "command"]
        same(slot) == [slot |-> slot, cooldowns |-> cooldowns, cache |-> cache,
                       responses |-> responses]
    IN  IF name = <<>>
        THEN same(ToSend(command, StringPayload(EmptyCommandReply), "command", "none"))
        ELSE IF name = <<"r","e","s","e","t">>
        THEN [slot |-> ToSend(command, StringPayload(ResetReply), "command", "none"),
              cooldowns |-> cooldowns,
              cache |-> resetCache(cache, s.chatId),
              responses |-> resetResponses(responses, s.chatId)]
        ELSE IF name = <<"h","e","l","p">>
        THEN same(ToSend(command, StringPayload(HelpReply), "command", "none"))
        ELSE IF name \in StateCommands
        THEN [slot |-> ToSend(command,
                              StringPayload(
                                  commandReport(name, getChatState(cache, responses, s.chatId))),
                              "command", "none"),
              cooldowns |-> cooldowns,
              cache |-> cacheAfterGet(cache, responses, s.chatId),
              responses |-> responses]
        ELSE same(ToSend(command, StringPayload(UnknownCommandReply), "command", "none"))

\* a mutant of MainPath: the guards run before the command dispatch
MainPathGuardsFirst(s, cooldowns, cache, responses, t) ==
    LET clean == Chars(s.cleanMessage)
        guarded == Guards([s EXCEPT !.path = "main"], cooldowns, t)
        blocked == [slot |-> guarded.slot, cooldowns |-> guarded.cooldowns, cache |-> cache,
                    responses |-> responses]
    IN  IF ~s.shouldRespond \/ clean = <<>>
        THEN [slot |-> [s EXCEPT !.pc = "done"], cooldowns |-> cooldowns, cache |-> cache,
              responses |-> responses]
        ELSE IF StartsWith(clean, COMMAND_PREFIX) /\ guarded.slot.pc # "send"
        THEN CommandBranch(s, cooldowns, cache, responses)
        ELSE blocked

\* the handler from `if (!shouldRespond || !cleanMessage) return` to its next await
MainPath(s, cooldowns, cache, responses, t) ==
    LET clean == Chars(s.cleanMessage)
        guarded == Guards([s EXCEPT !.path = "main"], cooldowns, t)
    IN  IF ~s.shouldRespond \/ clean = <<>>
        THEN [slot |-> [s EXCEPT !.pc = "done"], cooldowns |-> cooldowns, cache |-> cache,
              responses |-> responses]
        ELSE IF StartsWith(clean, COMMAND_PREFIX)
        THEN CommandBranch(s, cooldowns, cache, responses)
        ELSE [slot |-> guarded.slot, cooldowns |-> guarded.cooldowns, cache |-> cache,
              responses |-> responses]

\* a mutant of AfterMentionAll: the ambient check stamps the chat when no rule matches
AfterMentionAllStamps(s, cooldowns, cache, responses, t) ==
    LET guarded == Guards([s EXCEPT !.path = "general"], cooldowns, t)
    IN  IF getGeneralReply(s.cleanMessage).kind = "null"
        THEN MainPath(s, [cooldowns EXCEPT ![s.chatId] = t], cache, responses, t)
        ELSE [slot |-> guarded.slot, cooldowns |-> guarded.cooldowns, cache |-> cache,
              responses |-> responses]

\* tryHandleGeneralMessage after tryHandleMentionAll has returned false, and the handler
\* after it when no ambient rule matches
AfterMentionAll(s, cooldowns, cache, responses, t) ==
    LET guarded == Guards([s EXCEPT !.path = "general"], cooldowns, t)
    IN  IF getGeneralReply(s.cleanMessage).kind = "null"
        THEN MainPath(s, cooldowns, cache, responses, t)
        ELSE [slot |-> guarded.slot, cooldowns |-> guarded.cooldowns, cache |-> cache,
              responses |-> responses]

\* the handler from its start to its first await
FromStart(s, cooldowns, cache, responses, t) ==
    LET clean == Chars(s.cleanMessage)
    IN  IF clean = <<>> \/ s.chatId \notin GroupChats \/ StartsWith(clean, COMMAND_PREFIX)
        THEN MainPath(s, cooldowns, cache, responses, t)
        ELSE IF isMentionAllTrigger(clean)
        THEN [slot |-> [s EXCEPT !.pc = "getChat"], cooldowns |-> cooldowns, cache |-> cache,
              responses |-> responses]
        ELSE AfterMentionAll(s, cooldowns, cache, responses, t)

Install(m, result) ==
    /\ h' = [h EXCEPT ![m] = result.slot]
    /\ chatCooldowns' = result.cooldowns
    /\ chatCache' = result.cache
    /\ allResponses' = result.responses

FreeSlot(m) ==
    /\ h[m].pc \in {"idle", "done"}
    /\ \A k \in Slots : k < m => h[k].pc \notin {"idle", "done"}

\* client.on('message', ...): a message arrives and the handler runs to its first await
ReceiveBody(m, chatId, rawBody, budget) ==
    /\ process = "running"
    /\ received < budget
    /\ FreeSlot(m)
    /\ LET gate == Eligibility(chatId, rawBody, MentionsBot(rawBody))
           s == [IdleSlot EXCEPT !.pc = "start", !.chatId = chatId, !.rawBody = rawBody,
                                 !.cooling = isRateLimitedAt(chatCooldowns[chatId], now),
                                 !.arrival = received + 1,
                                 !.shouldRespond = gate.shouldRespond,
                                 !.cleanMessage = Str(gate.cleanMessage)]
       IN  Install(m, FromStart(s, chatCooldowns, chatCache, allResponses, now))
    /\ received' = received + 1
    /\ UNCHANGED <<now, process>>

ReceiveUpTo(m, budget) ==
    /\ \E chatId \in ChatIds :
          \E rawBody \in BodiesOf(chatId) : ReceiveBody(m, chatId, rawBody, budget)
    /\ UNCHANGED probe

Receive(m) == ReceiveUpTo(m, MaxMessages)

\* what the moderation collaborator may do on a text: answer with its verdict, answer 2xx
\* without a usable body, fail (transport error, non-2xx status), or stay silent, which
\* globalThis.fetch ends with a rejection when its headers timeout expires
ModerationAnswers == {"verdict", "malformed", "failed", "silent"}

\* a mutant of ModerationOutcome: a request that fails blocks the text
ModerationOutcomeFailClosed(text, answer) ==
    CASE answer = "verdict" ->
             [threw |-> FALSE, flagged |-> ModerationFlags(text),
              categories |-> IF ModerationFlags(text) THEN {"harassment"} ELSE {}]
      [] OTHER -> [threw |-> FALSE, flagged |-> TRUE, categories |-> {}]

\* the object moderateContent(text, type) resolves to, and whether it threw instead: the
\* verdict of the service; { flagged: Boolean(undefined), categories: [] } on a body that
\* is not JSON or lacks the fields; the object of the catch block when fetch rejects
\* (transport error, headers timeout) or the status is not 2xx
ModerationOutcome(text, answer) ==
    CASE answer = "verdict" ->
             [threw |-> FALSE, flagged |-> ModerationFlags(text),
              categories |-> IF ModerationFlags(text) THEN {"harassment"} ELSE {}]
      [] answer = "malformed" -> [threw |-> FALSE, flagged |-> FALSE, categories |-> {}]
      [] OTHER -> [threw |-> FALSE, flagged |-> FALSE, categories |-> {}]

\* the flag of moderateContent(text, type), as the handler reads it
moderateContent(text, answer) ==
    IF ModerationOutcome(text, answer).flagged THEN "flagged" ELSE "passed"

\* the reply field of a 2xx body of POST /chat: a completion, a completion inside white
\* space, white space only, and "" for a body that is not JSON or has no string reply
ChatReplyBodies == AIReplies \cup {" AI reply ", "   ", ""}

\* what the chat-completion collaborator may do: answer 2xx with a body, answer with
\* another status, fail on the way (fetch rejects), or stay silent until the timeout of
\* requestChatCompletion aborts the request
ChatAnswers ==
    [outcome : {"ok"}, reply : ChatReplyBodies]
        \cup [outcome : {"status", "rejected", "timeout"}, reply : {""}]

\* a mutant of requestChatCompletion: an empty completion is returned, not thrown
requestChatCompletionEmptyOk(answer) ==
    IF answer.outcome # "ok" THEN [threw |-> TRUE, reply |-> ""]
    ELSE [threw |-> FALSE, reply |-> Str(Trim(Chars(answer.reply)))]

\* requestChatCompletion(...): the trimmed reply it returns, or that it threw
requestChatCompletion(answer) ==
    LET reply == Str(Trim(Chars(answer.reply)))
    IN  IF answer.outcome # "ok" \/ reply = ""
        THEN [threw |-> TRUE, reply |-> ""]
        ELSE [threw |-> FALSE, reply |-> reply]

\* a mutant of getAIReply: a failed call yields no reply
getAIReplyOrNothing(answer) ==
    IF requestChatCompletion(answer).threw THEN "" ELSE requestChatCompletion(answer).reply

\* what getAIReply(chatId, message) returns then: the reply, or the apology of its catch block
getAIReply(answer) ==
    IF requestChatCompletion(answer).threw THEN ApologyReply
    ELSE requestChatCompletion(answer).reply

\* chatState.history as findMemoryAnswer reads it: only the user entries are inspected
MemoryHistory(history) ==
    [i \in DOMAIN history |->
        [role |-> history[i].role,
         content |-> IF history[i].role = "user" THEN Chars(history[i].content) ELSE <<>>]]

\* findMemoryAnswer(chatId, message) on the chat's state: the reply, "" for null
findMemoryAnswer(chatState, message) ==
    LET match == findMemoryMatch(MemoryHistory(chatState.history), Chars(message))
    IN  IF match = 0 THEN "" ELSE MemoryReply(chatState.history[match].content)

\* getAIReply(chatId, message) up to its await: chatState.history.slice(-CONTEXT_LIMIT)
contextMessages(cache, responses, chatId) ==
    SliceLast(getChatState(cache, responses, chatId).history, CONTEXT_LIMIT)

\* a mutant of Chain: memory recall is consulted before the predefined rules
ChainMemoryFirst(s, cache, responses) ==
    LET memoryReply == findMemoryAnswer(getChatState(cache, responses, s.chatId), s.cleanMessage)
        asked == [s EXCEPT !.memoryAsked = TRUE]
    IN  IF memoryReply # ""
        THEN ToOutputModeration(asked, StringPayload(memoryReply), "memory")
        ELSE IF getPredefinedReply(s.cleanMessage).kind # "null"
        THEN ToOutputModeration(asked, getPredefinedReply(s.cleanMessage), "predefined")
        ELSE [asked EXCEPT !.pc = "chat", !.chatAsked = TRUE,
                           !.context = contextMessages(cache, responses, s.chatId)]

\* the reply-source chain up to its next await: predefined rules, memory recall, then the
\* call of getAIReply
Chain(s, cache, responses) ==
    LET predefinedReply == getPredefinedReply(s.cleanMessage)
        memoryReply == findMemoryAnswer(getChatState(cache, responses, s.chatId), s.cleanMessage)
        asked == [s EXCEPT !.memoryAsked = TRUE]
    IN  IF predefinedReply.kind # "null"
        THEN ToOutputModeration(s, predefinedReply, "predefined")
        ELSE IF memoryReply # ""
        THEN ToOutputModeration(asked, StringPayload(memoryReply), "memory")
        ELSE [asked EXCEPT !.pc = "chat", !.chatAsked = TRUE,
                           !.context = contextMessages(cache, responses, s.chatId)]

\* message.getChat() and the contact lookups of tryHandleMentionAll return
GetChatReturn(m) ==
    /\ process = "running"
    /\ h[m].pc = "getChat"
    /\ \/ \E valid \in {0, 2} :
             /\ h' = [h EXCEPT ![m] =
                        ToSend([@ EXCEPT !.path = "mention-all"],
                               IF valid = 0 THEN StringPayload(NoMentionsReply)
                               ELSE Payload("object", MentionText, "", "", "", FALSE, "", valid),
                               "mention-all", "none")]
             /\ UNCHANGED <<chatCooldowns, chatCache, allResponses>>
       \/ Install(m, AfterMentionAll(h[m], chatCooldowns, chatCache, allResponses, now))
    /\ UNCHANGED <<now, received, process, probe>>

\* the handler after `await moderateContent(cleanMessage, 'input')`, up to its next await:
\* the slot and chatCache afterwards (findMemoryAnswer hydrates the chat's state)
AfterInputModeration(s, verdict, cache, responses) ==
    LET judged == [s EXCEPT !.modIn = verdict]
        next == IF judged.path = "general"
                THEN ToOutputModeration(judged, getGeneralReply(judged.cleanMessage), "general")
                ELSE Chain(judged, cache, responses)
    IN  IF verdict = "flagged"
        THEN [slot |-> ToSend(judged, StringPayload(SAFE_FAILURE_MESSAGE), "safety", "moderation"),
              cache |-> cache]
        ELSE [slot |-> next,
              cache |-> IF next.memoryAsked THEN cacheAfterGet(cache, responses, s.chatId)
                        ELSE cache]

\* moderateContent(cleanMessage, 'input') returns
ModInReturn(m) ==
    /\ process = "running"
    /\ h[m].pc = "modIn"
    /\ \E answer \in ModerationAnswers :
          LET after == AfterInputModeration(h[m], moderateContent(h[m].cleanMessage, answer),
                                            chatCache, allResponses)
          IN  /\ h' = [h EXCEPT ![m] = after.slot]
              /\ chatCache' = after.cache
    /\ UNCHANGED <<now, chatCooldowns, allResponses, received, process, probe>>

\* requestChatCompletion returns or throws inside getAIReply
ChatReturn(m) ==
    /\ process = "running"
    /\ h[m].pc = "chat"
    /\ \E answer \in ChatAnswers :
          h' = [h EXCEPT ![m] =
                  IF getAIReply(answer) = ""
                  THEN [@ EXCEPT !.pc = "done", !.source = "openai"]
                  ELSE ToOutputModeration(@, StringPayload(getAIReply(answer)), "openai")]
    /\ UNCHANGED <<now, chatCooldowns, chatCache, allResponses, received, process, probe>>

\* a mutant of AfterOutputModeration: the flagged reply is sent under source safety
AfterOutputModerationKeepsReply(s, verdict) ==
    IF verdict = "flagged"
    THEN [ToSend(s, s.payload, "safety", s.guard) EXCEPT !.modOut = verdict]
    ELSE [ToSend(s, s.payload, s.source, s.guard) EXCEPT !.modOut = verdict]

\* the handler after `await moderateContent(moderationTarget, 'output')`
AfterOutputModeration(s, verdict) ==
    IF verdict = "flagged"
    THEN [ToSend(s, StringPayload(SAFE_FAILURE_MESSAGE), "safety", s.guard)
             EXCEPT !.modOut = verdict]
    ELSE [ToSend(s, s.payload, s.source, s.guard) EXCEPT !.modOut = verdict]

\* moderateContent(moderationTarget, 'output') returns
ModOutReturn(m) ==
    /\ process = "running"
    /\ h[m].pc = "modOut"
    /\ \E answer \in ModerationAnswers :
          h' = [h EXCEPT ![m] =
                  AfterOutputModeration(@, moderateContent(h[m].candidate, answer))]
    /\ UNCHANGED <<now, chatCooldowns, chatCache, allResponses, received, process, probe>>

\* a mutant of RecordsInteraction: no path records
RecordsNothing(path) == FALSE

\* the paths whose send is followed by recordInteraction: all but the command branch
RecordsInteraction(path) == path # "command"

\* what the runtime does with the rejected promise of an async listener when no
\* 'unhandledRejection' handler is installed: it warns and goes on (--unhandled-rejections
\* =warn, the default before Node 15), or it ends the process (=throw, the default since)
UnhandledRejection == {"running", "exited"}

\* a reset command of the chat of slot m arrived after the message of slot m
ResetSince(m) ==
    \E k \in Slots :
        /\ h[k].chatId = h[m].chatId
        /\ h[k].rawBody = "!reset"
        /\ h[k].arrival > h[m].arrival

\* a mutant of Deliver: a handler overtaken by a reset of its chat records nothing
DeliverUnlessReset(m) ==
    /\ process = "running"
    /\ h[m].pc = "send"
    /\ \E o \in sendWithTyping(h[m].payload) :
          LET s == [h[m] EXCEPT !.pc = "done", !.sent = o.sent, !.threw = o.threw,
                                !.failed = o.failed]
              reply == RecordedReply(s.payload)
          IN  IF o.threw
              THEN /\ h' = [h EXCEPT ![m] = [s EXCEPT !.escaped = TRUE]]
                   /\ process' \in UnhandledRejection
                   /\ UNCHANGED <<chatCooldowns, chatCache, allResponses>>
              ELSE /\ chatCooldowns' = [chatCooldowns EXCEPT ![s.chatId] = now]
                   /\ UNCHANGED process
                   /\ IF RecordsInteraction(s.path) /\ ~ResetSince(m)
                      THEN /\ h' = [h EXCEPT ![m] = [s EXCEPT !.stamped = TRUE, !.recorded = 1]]
                           /\ chatCache' = recordInCache(chatCache, allResponses, s.chatId,
                                                         s.cleanMessage, reply, s.source, now)
                           /\ allResponses' = recordInResponses(allResponses, s.chatId,
                                                                s.cleanMessage, reply, s.source, now)
                      ELSE /\ h' = [h EXCEPT ![m] = [s EXCEPT !.stamped = TRUE]]
                           /\ UNCHANGED <<chatCache, allResponses>>
    /\ UNCHANGED <<now, received, probe>>

\* sendWithTyping returns or throws, and the handler runs to its end; the listener has no
\* try block, so an exception of sendWithTyping leaves it
Deliver(m) ==
    /\ process = "running"
    /\ h[m].pc = "send"
    /\ \E o \in sendWithTyping(h[m].payload) :
          LET s == [h[m] EXCEPT !.pc = "done", !.sent = o.sent, !.threw = o.threw,
                                !.failed = o.failed]
              reply == RecordedReply(s.payload)
          IN  IF o.threw
              THEN /\ h' = [h EXCEPT ![m] = [s EXCEPT !.escaped = TRUE]]
                   /\ process' \in UnhandledRejection
                   /\ UNCHANGED <<chatCooldowns, chatCache, allResponses>>
              ELSE /\ chatCooldowns' = [chatCooldowns EXCEPT ![s.chatId] = now]
                   /\ UNCHANGED process
                   /\ IF RecordsInteraction(s.path)
                      THEN /\ h' = [h EXCEPT ![m] = [s EXCEPT !.stamped = TRUE, !.recorded = 1]]
                           /\ chatCache' = recordInCache(chatCache, allResponses, s.chatId,
                                                         s.cleanMessage, reply, s.source, now)
                           /\ allResponses' = recordInResponses(allResponses, s.chatId,
                                                                s.cleanMessage, reply, s.source, now)
                      ELSE /\ h' = [h EXCEPT ![m] = [s EXCEPT !.stamped = TRUE]]
                           /\ UNCHANGED <<chatCache, allResponses>>
    /\ UNCHANGED <<now, received, probe>>

\* the clock advances
Tick ==
    /\ now < MaxTime
    /\ now' = now + 1
    /\ UNCHANGED <<chatCooldowns, chatCache, allResponses, h, received, process, probe>>

\* one step of the handler invocation in slot m after its start
HandlerStep(m) ==
    \/ GetChatReturn(m)
    \/ ModInReturn(m)
    \/ ChatReturn(m)
    \/ ModOutReturn(m)
    \/ Deliver(m)

Next ==
    \/ \E m \in Slots : Receive(m)
    \/ \E m \in Slots : HandlerStep(m)
    \/ Tick

Spec == Init /\ [][Next]_vars

NextLive ==
    \/ \E m \in Slots : ReceiveUpTo(m, MaxLiveMessages)
    \/ \E m \in Slots : HandlerStep(m)
    \/ Tick

\* a deployment that starts without all_responses.json
InitLive == Init /\ allResponses = [c \in ChatIds |-> NoResponses]

\* the event loop resumes every handler invocation whose awaited call has settled
FairSpec == InitLive /\ [][NextLive]_vars /\ \A m \in Slots : WF_vars(HandlerStep(m))

(***************************************************************************)
(* Properties of the pipeline                                              *)
(***************************************************************************)
Done(m) == h[m].pc = "done"

\* the handler decides to answer the message of s: an eligible message, a group message
\* matching an ambient rule, or a mention-all request that was served
Answerable(s) ==
    \/ s.shouldRespond /\ s.cleanMessage # ""
    \/ s.chatId \in GroupChats /\ s.cleanMessage # ""
          /\ findKeywordResponse(Chars(s.cleanMessage), generalResponses).kind # "null"
    \/ s.path = "mention-all"

StickerWithCaption(p) ==
    /\ p.kind = "object"
    /\ p.mediaBase64 = ""
    /\ (p.stickerUrl # "" \/ p.sendAsSticker) /\ (p.stickerUrl # "" \/ p.mediaUrl # "")
    /\ (p.text # "" \/ p.caption # "")

\* the newest entries of a list, at most cap of them, in their order
NewestOf(list, cap) ==
    IF Len(list) > cap THEN [i \in 1..cap |-> list[Len(list) - cap + i]] ELSE list

Last(list) == list[Len(list)]

\* the step in which sendWithTyping returns to the handler in slot m
DeliveredNow(m) == h[m].pc = "send" /\ h'[m].pc = "done" /\ ~h'[m].threw

\* the history and quick replies of a chat as the next reader finds them
EffectiveState(c) ==
    IF chatCache[c].present THEN chatCache[c]
    ELSE [present |-> FALSE,
          history |-> HistoryFrom(allResponses[c].records, 1),
          quickReplies |-> QuickRepliesFrom(allResponses[c].records, 1)]

\* C1 as stated: every message the handler decides to answer gets exactly one outbound
\* send before the handler finishes, whatever the payload (transport working)
C1_ExactlyOneSend ==
    \A m \in Slots :
        Done(m) /\ Answerable(h[m]) /\ ~h[m].failed => Len(h[m].sent) = 1

\* C1 amended: with the transport working, a message the handler decides to answer gets
\* one outbound send, except a sticker payload with text or caption, which goes out as
\* two sends, the sticker and then the text; never more than two sends, and never none
\* unless the transport threw
C1_OneSendOrStickerThenCaption ==
    \A m \in Slots :
        Done(m) /\ Answerable(h[m]) =>
            /\ Len(h[m].sent) <= 2
            /\ ~h[m].threw => Len(h[m].sent) >= 1
            /\ ~h[m].failed =>
                  IF StickerWithCaption(h[m].payload)
                  THEN h[m].sent = <<SentSticker, SentText(CaptionToUse(h[m].payload))>>
                  ELSE Len(h[m].sent) = 1

C1_Witness ==
    \E m \in Slots :
        /\ Done(m)
        /\ h[m].cleanMessage = "gif"
        /\ ~h[m].failed
        /\ h[m].sent = <<SentSticker, SentText("Have a sticker")>>

\* C2: once a message is past the eligibility gate the handler eventually sends a reply
\* (or the transport throws), whatever the moderation and chat collaborators do: verdict,
\* error, malformed or empty body, silence
C2_EventuallyReplies ==
    \A m \in Slots :
        (Answerable(h[m]) /\ h[m].pc \in {"modIn", "chat", "modOut", "send"})
            ~> (Done(m) /\ (h[m].sent # <<>> \/ h[m].threw))

C2_Witness ==
    \E m \in Slots :
        /\ Done(m)
        /\ h[m].cleanMessage = "send badword"
        /\ h[m].modIn = "passed"
        /\ h[m].chatAsked
        /\ h[m].sent = <<SentText(ApologyReply)>>

\* C3 as stated: input moderation is evaluated before the rate limit, so a message that
\* passes the length and sensitive guards, is flagged by input moderation and arrives
\* inside the cooldown window is answered with the safe-failure message, source safety
C3_ModerationBeforeRateLimit ==
    \A m \in Slots :
        /\ Done(m)
        /\ h[m].path = "main"
        /\ h[m].guard \notin {"length", "sensitive"}
        /\ h[m].cooling
        /\ ModerationFlags(h[m].cleanMessage)
        /\ ~h[m].threw
        => /\ h[m].sent = <<SentText(SAFE_FAILURE_MESSAGE)>>
           /\ h[m].source = "safety"

\* the source the reply-source chain gives a reply of the handler in slot m
ChainSource(m) ==
    IF h[m].chatAsked THEN "openai" ELSE IF h[m].memoryAsked THEN "memory" ELSE "predefined"

PredefinedHit(m) ==
    findKeywordResponse(Chars(h[m].cleanMessage), predefinedResponses).kind # "null"

\* C4: for a message past all guards the reply comes from the first producer in the order
\* predefined, memory, generative: memory is consulted only when no predefined rule
\* matches, the generative call is made only when memory yields nothing too, the source
\* is the producer's unless output moderation overrides it, and the reply is not empty
C4_ChainOrder ==
    /\ [](\A m \in Slots :
            Done(m) /\ h[m].path = "main" /\ h[m].modIn = "passed" =>
                /\ PredefinedHit(m) <=> ~h[m].memoryAsked
                /\ h[m].chatAsked => h[m].memoryAsked
                /\ h[m].source = IF h[m].modOut = "flagged" THEN "safety" ELSE ChainSource(m)
                /\ hasResponseContent(h[m].payload)
                /\ ~h[m].threw => h[m].sent # <<>>)
    /\ [][\A m \in Slots :
            h[m].pc = "modIn" /\ h[m].path = "main" /\ h'[m].modIn = "passed" =>
                LET recall == findMemoryAnswer(EffectiveState(h[m].chatId), h[m].cleanMessage)
                IN  /\ h'[m].chatAsked <=> ~PredefinedHit(m) /\ recall = ""
                    /\ h'[m].memoryAsked /\ ~h'[m].chatAsked =>
                          h'[m].payload = StringPayload(recall)]_vars

C4_Witness ==
    \E m \in Slots :
        /\ Done(m)
        /\ h[m].cleanMessage = "trail maps"
        /\ h[m].source = "memory"
        /\ h[m].sent = <<SentText(MemoryReply("trail maps"))>>

\* C5: when output moderation flags the candidate reply, what is sent is the safe-failure
\* message, the interaction is recorded with source safety, and the flagged text is
\* neither sent nor added to the chat's history or response log
C5_FlaggedOutputReplaced ==
    /\ [](\A m \in Slots :
            h[m].modOut = "flagged" =>
                /\ h[m].source = "safety"
                /\ h[m].payload = StringPayload(SAFE_FAILURE_MESSAGE)
                /\ \A i \in DOMAIN h[m].sent : h[m].sent[i] = SentText(SAFE_FAILURE_MESSAGE))
    /\ [][\A m \in Slots :
            DeliveredNow(m) /\ h[m].modOut = "flagged" =>
                LET c == h[m].chatId
                    before == getChatState(chatCache, allResponses, c).history
                IN  /\ Last(allResponses'[c].records) =
                          [message |-> h[m].cleanMessage, reply |-> SAFE_FAILURE_MESSAGE,
                           source |-> "safety", timestamp |-> now]
                    /\ chatCache'[c].history =
                          NewestOf(before \o <<[role |-> "user", content |-> h[m].cleanMessage],
                                               [role |-> "assistant",
                                                content |-> SAFE_FAILURE_MESSAGE]>>,
                                   MAX_SAVED_HISTORY)]_vars

C5_Witness ==
    \E m \in Slots :
        /\ Done(m)
        /\ h[m].modOut = "flagged"
        /\ h[m].candidate = "AI bad reply"
        /\ h[m].sent = <<SentText(SAFE_FAILURE_MESSAGE)>>
        /\ h[m].recorded = 1

\* the record recordInteraction appends for the reply the handler in slot m has sent
RecordOf(m) ==
    [message |-> h[m].cleanMessage,
     reply |-> IF h[m].payload.kind = "string" THEN h[m].payload.text
               ELSE describeResponseForLog(h[m].payload),
     source |-> h[m].source, timestamp |-> now]

RecordsNow(c) ==
    \E m \in Slots : DeliveredNow(m) /\ h[m].chatId = c /\ h[m].path # "command"

\* C7: for every chat the history holds at most MAX_SAVED_HISTORY entries, the quick
\* replies at most MAX_SAVED_QUICK_REPLIES and the response log at most
\* MAX_SAVED_RESPONSES; a step that adds entries keeps the newest ones in their order and
\* drops the oldest only as far as the cap is exceeded, and a step that adds none leaves
\* the lists as the next reader finds them, or empties them (reset)
C7_FifoBounds ==
    /\ [](\A c \in ChatIds :
            /\ Len(chatCache[c].history) <= MAX_SAVED_HISTORY
            /\ Len(chatCache[c].quickReplies) <= MAX_SAVED_QUICK_REPLIES
            /\ Len(allResponses[c].records) <= MAX_SAVED_RESPONSES)
    /\ [][\A c \in ChatIds :
            LET old == EffectiveState(c)
                log == allResponses[c].records
                history == chatCache'[c].history
                quick == chatCache'[c].quickReplies
                newLog == allResponses'[c].records
            IN  IF RecordsNow(c)
                THEN /\ Len(history) >= 2
                     /\ history = NewestOf(old.history
                                             \o <<history[Len(history) - 1], Last(history)>>,
                                           MAX_SAVED_HISTORY)
                     /\ newLog # <<>>
                     /\ newLog = NewestOf(Append(log, Last(newLog)), MAX_SAVED_RESPONSES)
                     /\ \/ quick = NewestOf(old.quickReplies, MAX_SAVED_QUICK_REPLIES)
                        \/ /\ quick # <<>>
                           /\ quick = NewestOf(Append(old.quickReplies, Last(quick)),
                                               MAX_SAVED_QUICK_REPLIES)
                ELSE /\ newLog = log \/ newLog = <<>>
                     /\ \/ chatCache'[c] = chatCache[c]
                        \/ /\ chatCache'[c].present
                           /\ history = NewestOf(old.history, MAX_SAVED_HISTORY)
                           /\ quick = NewestOf(old.quickReplies, MAX_SAVED_QUICK_REPLIES)
                        \/ /\ chatCache'[c].present
                           /\ history = <<>>
                           /\ quick = <<>>]_vars

\* the response log of the private chat is at its cap and has dropped its oldest record
C7_Witness ==
    \E c \in PrivateChats :
        /\ Len(allResponses[c].records) = MAX_SAVED_RESPONSES
        /\ allResponses[c].records[1].message = "pic"
        /\ Len(chatCache[c].history) = MAX_SAVED_HISTORY
        /\ Len(chatCache[c].quickReplies) = MAX_SAVED_QUICK_REPLIES
        /\ chatCache[c].quickReplies[1].userMessage = "pic"

\* C8: reset is idempotent: after reset(chatId), and after a second one right after it,
\* the chat's history and quick replies are empty and the response log has no entry for
\* the chat, and no other chat's state changes; the reset command does exactly that
C8_ResetIdempotent ==
    /\ [](\A c \in ChatIds :
            LET cache1 == resetCache(chatCache, c)
                log1 == resetResponses(allResponses, c)
                cache2 == resetCache(cache1, c)
                log2 == resetResponses(log1, c)
            IN  /\ cache1[c].history = <<>> /\ cache1[c].quickReplies = <<>>
                /\ ~log1[c].present /\ log1[c].records = <<>>
                /\ cache2 = cache1 /\ log2 = log1
                /\ \A d \in ChatIds \ {c} : cache1[d] = chatCache[d] /\ log1[d] = allResponses[d])
    /\ [][\A m \in Slots :
            h'[m] # h[m] /\ h'[m].pc = "send" /\ h'[m].payload = StringPayload(ResetReply) =>
                LET c == h'[m].chatId
                IN  /\ chatCache'[c] = [present |-> TRUE, history |-> <<>>, quickReplies |-> <<>>]
                    /\ allResponses'[c] = NoResponses
                    /\ \A d \in ChatIds \ {c} :
                          chatCache'[d] = chatCache[d] /\ allResponses'[d] = allResponses[d]]_vars

\* a reset has emptied the private chat while the group chat keeps its records
C8_Witness ==
    \E m \in Slots :
        /\ h[m].pc = "send"
        /\ h[m].payload = StringPayload(ResetReply)
        /\ chatCache[h[m].chatId] = [present |-> TRUE, history |-> <<>>, quickReplies |-> <<>>]
        /\ ~allResponses[h[m].chatId].present
        /\ \E d \in GroupChats : allResponses[d].present /\ chatCache[d].history # <<>>

(***************************************************************************)
(* The keyword matcher on its own: every text of at most MaxProbeText      *)
(* characters against every table of at most MaxProbeRules normalised      *)
(* rules (normalisePredefinedEntry: keywords trimmed, not empty, and       *)
(* lowercased unless the rule is case sensitive; a response with content). *)
(***************************************************************************)
ProbeChars == {"a", "b", "A"}

ProbeTexts == UNION { [1..n -> ProbeChars] : n \in 0..MaxProbeText }

ProbeKeywordLists ==
    { <<(<<"a">>)>>, <<(<<"b">>)>>, <<(<<"a","b">>)>>, <<(<<"A">>)>>,
      <<(<<"a">>), (<<"b">>)>>, <<(<<"b">>), (<<"a","b">>)>> }

ProbeResponses == <<"R1", "R2", "R3", "R4">>

\* the rules normalisePredefinedEntry can yield for position i of a table
ProbeRules(i) ==
    { [keywords |-> ks, response |-> TextPayload(ProbeResponses[i]), caseSensitive |-> cs] :
        ks \in ProbeKeywordLists, cs \in BOOLEAN } \
    { r \in [keywords : ProbeKeywordLists, response : {TextPayload(ProbeResponses[i])},
             caseSensitive : {FALSE}] :
        \E k \in DOMAIN r.keywords : r.keywords[k] # ToLowerCase(r.keywords[k]) }

ProbeTables ==
    UNION { { t \in [1..n -> UNION { ProbeRules(i) : i \in 1..n }] :
                \A i \in 1..n : t[i] \in ProbeRules(i) } : n \in 0..MaxProbeRules }

InitMatch ==
    /\ PipelineIdle
    /\ \E text \in ProbeTexts, entries \in ProbeTables :
          probe = [fn |-> "findKeywordResponse", text |-> text, entries |-> entries,
                   done |-> FALSE, result |-> NullPayload]

CallFindKeywordResponse ==
    /\ probe.fn = "findKeywordResponse"
    /\ ~probe.done
    /\ probe' = [probe EXCEPT !.done = TRUE,
                              !.result = findKeywordResponse(probe.text, probe.entries)]
    /\ UNCHANGED pipelineVars

NextMatch == CallFindKeywordResponse

SpecMatch == InitMatch /\ [][NextMatch]_vars

\* the rules of a table of which some keyword occurs in the text, the text and the keyword
\* lowercased unless the rule is case sensitive
RulesHit(text, entries) ==
    { i \in DOMAIN entries :
        \E k \in DOMAIN entries[i].keywords :
            LET kw == entries[i].keywords[k]
                occurs(t, w) == \E a \in 1..Len(t), b \in 1..Len(t) : SubSeq(t, a, b) = w
            IN  IF entries[i].caseSensitive THEN occurs(text, kw)
                ELSE occurs(ToLowerCase(text), ToLowerCase(kw)) }

\* C9: the keyword matcher returns the response of the first rule, in list order, of which
\* at least one keyword occurs as a substring of the text (lowercased unless the rule is
\* caseSensitive), however many keywords a later rule matches, and none when no rule matches.
C9_FirstMatchWins ==
    (probe.fn = "findKeywordResponse" /\ probe.done) =>
        LET hit == RulesHit(probe.text, probe.entries)
        IN  IF hit = {} THEN probe.result = NullPayload
            ELSE probe.result =
                   probe.entries[CHOOSE i \in hit : \A j \in hit : i <= j].response

\* C9 witness: the first rule matches with one keyword, the second with two, and the
\* response of the first is returned.
C9_Witness ==
    /\ probe.fn = "findKeywordResponse"
    /\ probe.done
    /\ Len(probe.entries) = 2
    /\ probe.entries[1].keywords = <<(<<"a">>)>>
    /\ probe.entries[2].keywords = <<(<<"a">>), (<<"b">>)>>
    /\ probe.text = <<"a", "b">>
    /\ probe.result = TextPayload("R1")

(***************************************************************************)
(* The memory recall on its own: every query of at most MaxProbeWords      *)
(* words against every history of at most MaxProbeHistory entries of at    *)
(* most MaxProbeEntryWords words.                                          *)
(***************************************************************************)
ProbeWords == { <<"c","a","t">>, <<"d","o","g">>, <<"o","w","l">>, <<"t","h","e">> }

RECURSIVE JoinWords(_)
JoinWords(ws) ==
    IF Len(ws) = 0 THEN <<>>
    ELSE IF Len(ws) = 1 THEN ws[1]
    ELSE ws[1] \o <<" ">> \o JoinWords(Tail(ws))

ProbeSentences(n) == { JoinWords(ws) : ws \in UNION { [1..k -> ProbeWords] : k \in 0..n } }

ProbeEntries ==
    [role : {"user", "assistant"}, content : ProbeSentences(MaxProbeEntryWords) \ {<<>>}]

ProbeHistories == UNION { [1..n -> ProbeEntries] : n \in 1..MaxProbeHistory }

\* histories whose contents have capitals, punctuation and a stopword
QuotedEntries ==
    { [role |-> "user", content |-> <<"T","h","e"," ","C","a","t","!">>],
      [role |-> "user", content |-> <<"c","a","t",","," ","D","o","g">>],
      [role |-> "assistant", content |-> <<"C","a","t">>] }

QuotedHistories == UNION { [1..n -> QuotedEntries] : n \in 1..MaxProbeHistory }

InitRecall ==
    /\ PipelineIdle
    /\ \E message \in ProbeSentences(MaxProbeWords),
          history \in ProbeHistories \cup QuotedHistories :
          probe = [fn |-> "findMemoryAnswer", message |-> message, history |-> history,
                   done |-> FALSE, result |-> 0, reply |-> <<>>]

CallFindMemoryAnswer ==
    /\ probe.fn = "findMemoryAnswer"
    /\ ~probe.done
    /\ probe' = [probe EXCEPT
                    !.done = TRUE,
                    !.result = findMemoryMatch(probe.history, probe.message),
                    !.reply = memoryAnswerText(probe.history,
                                               findMemoryMatch(probe.history, probe.message))]
    /\ UNCHANGED pipelineVars

NextRecall == CallFindMemoryAnswer

SpecRecall == InitRecall /\ [][NextRecall]_vars

\* keywords(text) as a set, and |keywords(text) \cap keywords(entry)|
KeywordsOf(text) == Range(extractKeywords(text))

SetOverlap(message, content) == Cardinality(KeywordsOf(message) \cap KeywordsOf(content))

\* the recall as C10 states it: the first user entry of the highest set overlap with the
\* query, accepted iff overlap / |keywords(text)| reaches the threshold of the query's length
RecallBySets(history, message) ==
    LET size == Cardinality(KeywordsOf(message))
        users == { i \in DOMAIN history :
                     history[i].role = "user" /\ SetOverlap(message, history[i].content) > 0 }
        best == CHOOSE i \in users :
                   \A j \in users :
                      \/ SetOverlap(message, history[i].content)
                            > SetOverlap(message, history[j].content)
                      \/ /\ SetOverlap(message, history[i].content)
                               = SetOverlap(message, history[j].content)
                         /\ i <= j
        overlap == SetOverlap(message, history[best].content)
        threshold == IF Len(extractKeywords(message)) <= 2
                     THEN 10 * overlap >= 6 * size
                     ELSE 100 * overlap >= 34 * size
    IN  IF size = 0 \/ users = {} THEN 0
        ELSE IF threshold THEN best ELSE 0

\* C10 (as claimed): memory recall scores an entry by the set intersection
\* |keywords(text) \cap keywords(entry)| / |keywords(text)|, so that a keyword repeated in an
\* entry counts once and no score exceeds 1, and accepts the best entry iff the score is
\* >= 0.6 for a query of at most 2 keywords and >= 0.34 otherwise; no keywords, no recall.
C10_SetIntersectionScore ==
    (probe.fn = "findMemoryAnswer" /\ probe.done) =>
        probe.result = RecallBySets(probe.history, probe.message)

(***************************************************************************)
(* Guards of the pipeline                                                  *)
(***************************************************************************)
\* the text is longer than the limit and is not a command
TooLong(s) ==
    /\ Len(Chars(s.cleanMessage)) > MAX_MESSAGE_LENGTH
    /\ ~StartsWith(Chars(s.cleanMessage), COMMAND_PREFIX)

\* C11 as stated: a non-command message longer than MAX_MESSAGE_LENGTH that is answered
\* never reaches the chat-completion collaborator, its reply is the length warning and
\* the interaction is recorded with source safety, in private and in group chats
C11_LongMessageGetsLengthWarning ==
    \A m \in Slots :
        Done(m) /\ TooLong(h[m]) /\ h[m].sent # <<>> /\ ~h[m].threw
        => /\ ~h[m].chatAsked
           /\ h[m].sent = <<SentText(LengthWarning)>>
           /\ h[m].source = "safety"
           /\ h[m].recorded = 1

\* the flag of a text the moderation service has checked and not flagged
CheckedNotFlagged == moderateContent("hi", "verdict")

StrippedEmpty(s) ==
    LET raw == Chars(s.rawBody)
    IN  /\ s.chatId \in GroupChats
        /\ \/ BotNameTest(raw) /\ Trim(RemoveBotName(raw, 1)) = <<>>
           \/ /\ ~BotNameTest(raw)
              /\ MentionsBot(s.rawBody)
              /\ Trim(CollapseSpaces(ReplaceMentions(raw, 1), 1)) = <<>>

\* C15 as stated: a group message whose text is empty once the bot's name or mention is
\* stripped ends with no reply, no recorded interaction and no cooldown stamp
C15_EmptyAfterStripNoReply ==
    \A m \in Slots :
        Done(m) /\ StrippedEmpty(h[m])
        => h[m].sent = <<>> /\ h[m].recorded = 0 /\ ~h[m].stamped

\* C16 as stated: on the general path of a group chat the checks run in the order length,
\* sensitive pattern, input moderation, rate limit, so a message that matches a general
\* rule, passes the length and sensitive checks, is flagged by the moderation service and
\* arrives inside the cooldown window gets the safe-failure message, source safety
C16_GeneralModerationBeforeRateLimit ==
    \A m \in Slots :
        /\ Done(m)
        /\ h[m].path = "general"
        /\ h[m].guard \notin {"length", "sensitive"}
        /\ h[m].cooling
        /\ ModerationFlags(h[m].cleanMessage)
        /\ ~h[m].threw
        => /\ h[m].sent = <<SentText(SAFE_FAILURE_MESSAGE)>>
           /\ h[m].source = "safety"

\* C17 as stated: a mention-all trigger that arrives within RATE_LIMIT_MS of the chat's
\* last reply is answered with the rate-limit message and mentions nobody
C17_MentionAllRateLimited ==
    \A m \in Slots :
        /\ Done(m)
        /\ h[m].chatId \in GroupChats
        /\ isMentionAllTrigger(Chars(h[m].cleanMessage))
        /\ h[m].cooling
        /\ h[m].sent # <<>>
        => /\ h[m].sent = <<SentText(RateLimitReply)>>
           /\ h[m].payload.kind = "string"

CommandReplies == {EmptyCommandReply, ResetReply, HelpReply, UnknownCommandReply}

\* C18: an eligible message that starts with the command prefix gets the reply of its
\* command and nothing else, whatever its length, its digits and the chat's cooldown: no
\* guard has blocked it, and neither the message nor the reply went to moderation
C18_CommandsBypassGuards ==
    \A m \in Slots :
        /\ Done(m)
        /\ h[m].shouldRespond
        /\ StartsWith(Chars(h[m].cleanMessage), COMMAND_PREFIX)
        /\ ~h[m].threw
        => /\ \E reply \in CommandReplies : h[m].sent = <<SentText(reply)>>
           /\ CommandName(Chars(h[m].cleanMessage)) = <<"h","e","l","p">>
                 => h[m].sent = <<SentText(HelpReply)>>
           /\ h[m].guard = "none"
           /\ h[m].modIn = "none"
           /\ h[m].modOut = "none"
           /\ ~h[m].chatAsked

\* a command longer than MAX_MESSAGE_LENGTH that holds a card-like digit run arrived
\* inside the cooldown window of its chat and got the help text
C18_Witness ==
    \E m \in Slots :
        /\ Done(m)
        /\ StartsWith(Chars(h[m].cleanMessage), COMMAND_PREFIX)
        /\ Len(Chars(h[m].cleanMessage)) > MAX_MESSAGE_LENGTH
        /\ checkSensitivePatterns(h[m].cleanMessage) = CardWarning
        /\ h[m].cooling
        /\ h[m].sent = <<SentText(HelpReply)>>

\* C19 as stated: no exception raised while a message is handled leaves the handler, and
\* the process keeps running
C19_NoExceptionEscapes ==
    /\ process = "running"
    /\ \A m \in Slots : ~h[m].escaped

(***************************************************************************)
(* A private chat that sends !reset and, once that is answered, hello,     *)
(* while the group chat sends what it likes; probe counts the two messages *)
(***************************************************************************)
\* the next 'message' event of the scenario
ReceiveScripted(m) ==
    /\ probe.fn = "scenario"
    /\ \/ /\ \E chatId \in GroupChats :
                \E rawBody \in BodiesOf(chatId) : ReceiveBody(m, chatId, rawBody, MaxMessages)
          /\ UNCHANGED probe
       \/ /\ probe.step = 0
          /\ \E chatId \in PrivateChats : ReceiveBody(m, chatId, "!reset", MaxMessages)
          /\ probe' = [probe EXCEPT !.step = 1]
       \/ /\ probe.step = 1
          /\ \E k \in Slots : h[k].rawBody = "!reset" /\ Done(k) /\ ~h[k].threw
          /\ \E chatId \in PrivateChats : ReceiveBody(m, chatId, "hello", MaxMessages)
          /\ probe' = [probe EXCEPT !.step = 2]

InitScenario == PipelineStart /\ probe = [fn |-> "scenario", step |-> 0]

NextScenario ==
    \/ \E m \in Slots : ReceiveScripted(m)
    \/ \E m \in Slots : HandlerStep(m)
    \/ Tick

SpecScenario == InitScenario /\ [][NextScenario]_vars

\* the handler invocation in slot m has answered the hello of the scenario, and neither
\* moderation call has flagged anything
HelloAnswered(m) ==
    /\ probe.fn = "scenario"
    /\ Done(m)
    /\ h[m].rawBody = "hello"
    /\ h[m].chatId \in PrivateChats
    /\ h[m].modOut # "flagged"
    /\ ~h[m].threw

\* the reply came from the generative path after an empty memory recall, was recorded
\* with source openai, and the chat's history holds the user entry and the reply
GenerativeWithTwoEntries(m) ==
    /\ h[m].memoryAsked
    /\ h[m].chatAsked
    /\ h[m].source = "openai"
    /\ h[m].recorded = 1
    /\ h[m].sent = <<SentText(h[m].payload.text)>>
    /\ chatCache[h[m].chatId].present
    /\ chatCache[h[m].chatId].history
          = << [role |-> "user", content |-> "hello"],
               [role |-> "assistant", content |-> h[m].payload.text] >>
    /\ Last(allResponses[h[m].chatId].records).source = "openai"

\* C14 as stated: after !reset has been answered, the next message hello of the private
\* chat is answered through the generative path, recorded with source openai, and the
\* history then holds exactly the two entries user, assistant
C14_ResetThenHello ==
    \A m \in Slots : HelloAnswered(m) => GenerativeWithTwoEntries(m)

\* C14, amended: the same for a hello that arrives outside the cooldown window which the
\* confirmation of the reset has opened
C14_ResetThenHelloAfterCooldown ==
    \A m \in Slots : HelloAnswered(m) /\ ~h[m].cooling => GenerativeWithTwoEntries(m)

C14_Witness ==
    \E m \in Slots :
        /\ HelloAnswered(m)
        /\ ~h[m].cooling
        /\ probe.step = 2
        /\ h[m].sent = <<SentText("AI reply")>>
        /\ Len(chatCache[h[m].chatId].history) = 2

(***************************************************************************)
(* The image service: POST /image and its quota per chat. probe holds the  *)
(* service: its clock, the usage map, the requests waiting for the image   *)
(* model, the response sent last, and the generations that succeeded.      *)
(***************************************************************************)
\* IMAGE_GENERATION_LIMIT and IMAGE_GENERATION_WINDOW_MS, scaled to the model
DEFAULT_LIMIT == 2

WINDOW_MS == 2

MaxImageInFlight == 2

MaxImageRequests == 4

\* the last tick of the service's clock
MaxImageTime == WINDOW_MS + 2

ImageChats == {"c1", "c2"}

ImageSlots == 1..MaxImageInFlight

Max(a, b) == IF a > b THEN a ELSE b

IdleCall == [pc |-> "idle", chatId |-> "", recent |-> <<>>]

\* a response of POST /image; kind and due tell what the request was and how many
\* generations of its chat had succeeded within the window when it arrived
ImageResponse(kind, status, chatId, due, remaining, resetInMs) ==
    [kind |-> kind, status |-> status, chatId |-> chatId, due |-> due,
     remaining |-> remaining, resetInMs |-> resetInMs]

\* entries.filter((timestamp) => now - timestamp < WINDOW_MS)
pruneUsage(entries, t) == SelectSeq(entries, LAMBDA timestamp : t - timestamp < WINDOW_MS)

InitImage ==
    /\ PipelineIdle
    /\ probe = [fn |-> "image", clock |-> 0,
                usage |-> [c \in ImageChats |-> <<>>],
                calls |-> [r \in ImageSlots |-> IdleCall],
                generated |-> [c \in ImageChats |-> <<>>],
                last |-> ImageResponse("none", 0, "", 0, 0, 0),
                served |-> 0]

\* POST /image up to its response or to `await openai.images.generate(...)`; the second
\* Date.now() of the 429 branch may read a later millisecond than pruneUsage did
PostImage(r) ==
    /\ probe.fn = "image"
    /\ probe.served < MaxImageRequests
    /\ probe.calls[r].pc = "idle"
    /\ \E chatId \in ImageChats \cup {""} :
          LET t == probe.clock
              recent == pruneUsage(probe.usage[chatId], t)
              due == Len(pruneUsage(probe.generated[chatId], t))
              counted == [probe EXCEPT !.served = @ + 1]
          IN  IF chatId = ""
              THEN probe' = [counted EXCEPT !.last = ImageResponse("invalid", 400, "", 0, 0, 0)]
              ELSE IF Len(recent) >= DEFAULT_LIMIT
              THEN \E later \in {t, t + 1} :
                      /\ later <= MaxImageTime
                      /\ probe' = [counted EXCEPT
                                     !.clock = later,
                                     !.usage[chatId] = recent,
                                     !.last = ImageResponse("rejected", 429, chatId, due, 0,
                                                  Max(WINDOW_MS - (later - recent[1]), 0))]
              ELSE probe' = [counted EXCEPT
                               !.usage[chatId] = recent,
                               !.calls[r] = [pc |-> "generating", chatId |-> chatId,
                                             recent |-> recent],
                               !.last = ImageResponse("accepted", 0, chatId, due, 0, 0)]
    /\ UNCHANGED pipelineVars

\* openai.images.generate(...) returns or throws, and the handler answers; a failure of
\* the image model is answered with its status when that is 429 or 400, else with 500
GenerateReturn(r) ==
    /\ probe.fn = "image"
    /\ probe.calls[r].pc = "generating"
    /\ \E outcome \in {"image", "empty", "error", "error429", "error400"} :
          LET chatId == probe.calls[r].chatId
              recent == Append(probe.calls[r].recent, probe.clock)
              freed == [probe EXCEPT !.calls[r] = IdleCall]
          IN  IF outcome = "image"
              THEN probe' = [freed EXCEPT
                               !.usage[chatId] = recent,
                               !.generated[chatId] = Append(@, probe.clock),
                               !.last = ImageResponse("generated", 200, chatId, 0,
                                            Max(DEFAULT_LIMIT - Len(recent), 0),
                                            Max(WINDOW_MS - (probe.clock - recent[1]), 0))]
              ELSE probe' = [freed EXCEPT
                               !.last = ImageResponse("failed",
                                            CASE outcome = "empty" -> 502
                                              [] outcome = "error429" -> 429
                                              [] outcome = "error400" -> 400
                                              [] OTHER -> 500,
                                            chatId, 0, 0, 0)]
    /\ UNCHANGED pipelineVars

ImageTick ==
    /\ probe.fn = "image"
    /\ probe.clock < MaxImageTime
    /\ probe' = [probe EXCEPT !.clock = @ + 1]
    /\ UNCHANGED pipelineVars

NextImage ==
    \/ \E r \in ImageSlots : PostImage(r)
    \/ \E r \in ImageSlots : GenerateReturn(r)
    \/ ImageTick

SpecImage == InitImage /\ [][NextImage]_vars

\* C13 as stated: a request that arrives when DEFAULT_LIMIT generations of its chat have
\* succeeded within the trailing window is rejected with status 429, remaining = 0 and a
\* strictly positive resetInMs, without a call of the image model; a request that
\* arrives when fewer have succeeded within the window is accepted
C13_QuotaEnforced ==
    probe.fn = "image" /\ probe.last.kind \in {"accepted", "rejected"}
    => /\ probe.last.due >= DEFAULT_LIMIT
             => /\ probe.last.kind = "rejected"
                /\ probe.last.status = 429
                /\ probe.last.remaining = 0
                /\ probe.last.resetInMs > 0
       /\ probe.last.due < DEFAULT_LIMIT => probe.last.kind = "accepted"

(***************************************************************************)
(* The webhook of the PHP edition: the GET branch of index.php. probe      *)
(* holds the environment, the query parameters and the response.           *)
(***************************************************************************)
\* a variable of the environment that is not set, a query parameter that is not sent,
\* and a query parameter sent as an array (hub.mode[]=...)
Unset == "(unset)"

ArrayValue == "(array)"

WebhookTokens == {"", "0", "verification-secret", "wrong-token"}

\* getenv('VERIFY_TOKEN') ?: '': false (not set) and the falsy strings '' and '0' give ''
verifyTokenOf(env) == IF env \in {Unset, "", "0"} THEN "" ELSE env

\* $_GET[...] ?? '': a parameter that is not sent reads as ''
QueryValue(param) == IF param = Unset THEN "" ELSE param

\* the GET branch of index.php: status and body of the response
indexGet(env, mode, token, challenge) ==
    IF /\ QueryValue(mode) = "subscribe"
       /\ QueryValue(token) = verifyTokenOf(env)
       /\ verifyTokenOf(env) # ""
    THEN [status |-> 200, body |-> QueryValue(challenge)]
    ELSE [status |-> 403, body |-> "Invalid verify token."]

InitWebhook ==
    /\ PipelineIdle
    /\ \E env \in WebhookTokens \cup {Unset},
          mode \in {Unset, "subscribe", "unsubscribe", ArrayValue},
          token \in WebhookTokens \cup {Unset, ArrayValue},
          challenge \in {Unset, "test-challenge", "1234"} :
          probe = [fn |-> "webhook", env |-> env, mode |-> mode, token |-> token,
                   challenge |-> challenge, done |-> FALSE,
                   response |-> [status |-> 0, body |-> ""]]

\* a GET request is served; the branch returns before the bot is constructed
GetIndex ==
    /\ probe.fn = "webhook"
    /\ ~probe.done
    /\ probe' = [probe EXCEPT
                   !.done = TRUE,
                   !.response = indexGet(probe.env, probe.mode, probe.token, probe.challenge)]
    /\ UNCHANGED pipelineVars

SpecWebhook == InitWebhook /\ [][GetIndex]_vars

\* C20 as stated: a GET request is answered with status 200 and the hub.challenge value
\* if and only if hub.mode is subscribe and hub.verify_token equals the configured,
\* non-empty VERIFY_TOKEN; every other GET request is answered with status 403 and the
\* body 'Invalid verify token.'
C20_VerificationHandshake ==
    probe.fn = "webhook" /\ probe.done
    => IF /\ probe.mode = "subscribe"
          /\ probe.env \notin {Unset, ""}
          /\ probe.token = probe.env
       THEN probe.response = [status |-> 200, body |-> QueryValue(probe.challenge)]
       ELSE probe.response = [status |-> 403, body |-> "Invalid verify token."]

(***************************************************************************)
(* The PHP edition: Bot::handleWebhook on one text message. Every request  *)
(* constructs the bot from conversations.json and responses.json and       *)
(* persists both at its end, so probe holds the two files.                 *)
(***************************************************************************)
\* Bot::MAX_RESPONSES_PER_CHAT, scaled to the model; Bot::CONTEXT_LIMIT is CONTEXT_LIMIT
MAX_RESPONSES_PER_CHAT == 2

MaxPhpMessages == 3

PhpChats == {"15550001", "15550002"}

\* $message['text']['body']
PhpBodies == {"", "hi", "lol", "hello", "!reset", "!help", "!history"}

PhpResetReply == "Conversation history cleared. We can start fresh!"

PhpOpenAiFallback == "I ran into a problem reaching OpenAI. Please try again soon."

\* the default of `$this->conversations[$chatId] ?? [...]`, and a chat without a log
NoConversation ==
    [present |-> FALSE, history |-> <<>>, quick_replies |-> <<>>, message_count |-> 0,
     last_seen |-> "null"]

NoLog == [present |-> FALSE, log |-> <<>>]

\* Bot::trimHistory
trimHistory(history) ==
    IF Len(history) <= CONTEXT_LIMIT * 2 THEN history ELSE SliceLast(history, CONTEXT_LIMIT * 2)

\* Bot::matchPredefined: the text of the first rule with a keyword in the message, "" for null
RECURSIVE matchPredefined(_, _, _)
matchPredefined(message, entries, i) ==
    IF i > Len(entries) THEN ""
    ELSE LET response == entries[i].response
             responseText == IF response.text # "" THEN response.text
                             ELSE IF response.caption # "" THEN response.caption
                             ELSE IF response.stickerUrl # "" THEN "[sticker]"
                             ELSE IF response.mediaUrl # "" THEN "[media]"
                             ELSE ""
         IN  IF /\ Len(entries[i].keywords) > 0
                /\ responseText # ""
                /\ \E k \in DOMAIN entries[i].keywords :
                      Includes(ToLowerCase(message), ToLowerCase(entries[i].keywords[k]))
             THEN responseText
             ELSE matchPredefined(message, entries, i + 1)

\* Bot::recordReply: the two stores afterwards
recordReply(store, chatId, message, reply, source, conversation) ==
    LET recorded == [conversation EXCEPT
                       !.present = TRUE,
                       !.history = trimHistory(Append(@, [role |-> "assistant",
                                                           content |-> reply]))]
        log == Append(store.responses[chatId].log,
                      [message |-> message, reply |-> reply, source |-> source])
    IN  [store EXCEPT
           !.conversations[chatId] = recorded,
           !.responses[chatId] =
               [present |-> TRUE,
                log |-> IF Len(log) > MAX_RESPONSES_PER_CHAT
                        THEN SliceLast(log, MAX_RESPONSES_PER_CHAT) ELSE log]]

\* Bot::resetConversation
resetConversation(store, chatId) ==
    [store EXCEPT !.conversations[chatId] = NoConversation, !.responses[chatId] = NoLog]

\* Bot::handleCommand for the commands of PhpBodies: the reply, the conversation passed
\* by reference and the stores afterwards
phpHandleCommand(store, conversation, chatId, message) ==
    LET command == CommandName(Chars(message))
    IN  IF command = <<"h","e","l","p">>
        THEN [reply |-> "Here are my commands:", conversation |-> conversation, store |-> store]
        ELSE IF command = <<"r","e","s","e","t">>
        THEN [reply |-> PhpResetReply,
              conversation |-> [NoConversation EXCEPT !.last_seen = "time"],
              store |-> resetConversation(store, chatId)]
        ELSE IF command = <<"h","i","s","t","o","r","y">>
        THEN [reply |-> IF conversation.history = <<>>
                        THEN "I do not have any saved context yet. Say hi to get started!"
                        ELSE "Recent context:",
              conversation |-> conversation, store |-> store]
        ELSE [reply |-> "I don't recognise that command. Try !help for options.",
              conversation |-> conversation, store |-> store]

\* Bot::handleIncomingText: the stores afterwards; completion is what
\* generateConversationalReply returns, "" for null
handleIncomingText(store, chatId, text, completion) ==
    LET cleanMessage == Str(Trim(Chars(text)))
        loaded == store.conversations[chatId]
        conversation == [loaded EXCEPT
                           !.message_count = @ + 1,
                           !.last_seen = "time",
                           !.history = trimHistory(Append(@, [role |-> "user",
                                                               content |-> cleanMessage]))]
        commanded == phpHandleCommand(store, conversation, chatId, cleanMessage)
        predefined == matchPredefined(Chars(cleanMessage), predefinedResponses, 1)
        general == matchPredefined(Chars(cleanMessage), generalResponses, 1)
        quick(reply) == [conversation EXCEPT
                           !.quick_replies = SliceLast(Append(@, reply), 10)]
    IN  IF cleanMessage = "" THEN store
        ELSE IF StartsWith(ToLowerCase(Chars(cleanMessage)), ToLowerCase(COMMAND_PREFIX))
        THEN recordReply(commanded.store, chatId, cleanMessage, commanded.reply, "command",
                         commanded.conversation)
        ELSE IF predefined \notin {"", "0"}
        THEN recordReply(store, chatId, cleanMessage, predefined, "memory", quick(predefined))
        ELSE IF general \notin {"", "0"}
        THEN recordReply(store, chatId, cleanMessage, general, "general", quick(general))
        ELSE recordReply(store, chatId, cleanMessage,
                         IF completion = "" THEN PhpOpenAiFallback ELSE completion,
                         "openai", conversation)

InitPhp ==
    /\ PipelineIdle
    /\ probe = [fn |-> "php",
                conversations |-> [c \in PhpChats |-> NoConversation],
                responses |-> [c \in PhpChats |-> NoLog],
                handled |-> 0, chatId |-> "", text |-> ""]

\* Bot::handleWebhook on a payload with one text message, persist() included
HandleWebhook ==
    /\ probe.fn = "php"
    /\ probe.handled < MaxPhpMessages
    /\ \E chatId \in PhpChats, text \in PhpBodies, completion \in {"", "AI reply"} :
          probe' = [handleIncomingText(probe, chatId, text, completion) EXCEPT
                      !.handled = probe.handled + 1, !.chatId = chatId, !.text = text]
    /\ UNCHANGED pipelineVars

SpecPhp == InitPhp /\ [][HandleWebhook]_vars

\* C21 as stated: after a !reset message has been handled the chat's stored history and
\* quick replies are empty and the response log has no entry for that chat
C21_PhpResetLeavesChatEmpty ==
    probe.fn = "php" /\ probe.text = "!reset"
    => /\ probe.conversations[probe.chatId].history = <<>>
       /\ probe.conversations[probe.chatId].quick_replies = <<>>
       /\ ~probe.responses[probe.chatId].present
       /\ probe.responses[probe.chatId].log = <<>>

(***************************************************************************)
(* Persistence of the response log: appendResponse, the reset command,     *)
(* scheduleAllResponsesSave and its timer. probe holds allResponses (log), *)
(* saveAllResponsesTimer (timer: its due time, 0 for null), the JSON text   *)
(* handed to the last fs.promises.writeFile (disk) and when (wrote), and a *)
(* journal of the records appended.                                        *)
(***************************************************************************)
\* SAVE_DEBOUNCE_MS when the deployment sets it, scaled to the model
SAVE_DEBOUNCE_MS == 2

MaxSaveOps == 4

\* the last tick of the clock: long enough for a timer set at the last moment to be late
MaxSaveTime == 2 * SAVE_DEBOUNCE_MS + 1

\* the values of the setting: config.js of the repository does not define it (undefined),
\* a deployment may set it to a negative number, to zero or to a positive number
DebounceSettings ==
    {[defined |-> FALSE, value |-> 0]}
        \cup [defined : {TRUE}, value : {-1, 0, SAVE_DEBOUNCE_MS}]

\* Number.isFinite(SAVE_DEBOUNCE_MS) ? Math.max(0, SAVE_DEBOUNCE_MS) : 0
debounceMsOf(setting) ==
    IF setting.defined THEN (IF setting.value > 0 THEN setting.value ELSE 0) ELSE 0

\* the user messages of the interactions recorded, in their order
SaveMessages == <<"hi", "pic", "trail maps", "hello">>

\* the record is part of the log
InLog(log, entry) ==
    \E i \in DOMAIN log[entry.chatId].records :
        /\ log[entry.chatId].records[i].message = entry.message
        /\ log[entry.chatId].records[i].timestamp = entry.at

\* writeAllResponsesToDisk(): JSON.stringify(allResponses) goes to writeFile
writeAllResponsesToDisk(p) ==
    [p EXCEPT !.disk = p.log, !.wrote = p.clock, !.writes = @ + 1,
              !.journal = [i \in DOMAIN @ |->
                              IF InLog(p.log, @[i]) THEN [@[i] EXCEPT !.saved = TRUE] ELSE @[i]]]

\* a mutant of scheduleAllResponsesSave: every call restarts the timer
scheduleRestartsTimer(p, immediate) ==
    IF immediate \/ debounceMsOf(p.setting) = 0
    THEN writeAllResponsesToDisk([p EXCEPT !.timer = 0])
    ELSE [p EXCEPT !.timer = p.clock + debounceMsOf(p.setting)]

\* scheduleAllResponsesSave(immediate)
scheduleAllResponsesSave(p, immediate) ==
    IF immediate \/ debounceMsOf(p.setting) = 0
    THEN writeAllResponsesToDisk([p EXCEPT !.timer = 0])
    ELSE IF p.timer # 0 THEN p
    ELSE [p EXCEPT !.timer = p.clock + debounceMsOf(p.setting)]

InitSave ==
    /\ PipelineIdle
    /\ \E setting \in DebounceSettings :
          probe = [fn |-> "save", setting |-> setting, clock |-> 1,
                   log |-> [c \in ChatIds |-> NoResponses],
                   disk |-> [c \in ChatIds |-> NoResponses],
                   timer |-> 0, wrote |-> 0, writes |-> 0, ops |-> 0,
                   journal |-> <<>>,
                   op |-> [kind |-> "none", chatId |-> "", hadLog |-> FALSE, timer |-> 0]]

\* recordInteraction calls appendResponse(chatId, record) with the record of one
\* interaction: a user message, a reply, the time of the call
AppendResponse ==
    /\ probe.fn = "save"
    /\ probe.ops < MaxSaveOps
    /\ \E chatId \in ChatIds :
          LET message == SaveMessages[Len(probe.journal) + 1]
              record == [message |-> message, reply |-> "AI reply", source |-> "openai",
                         timestamp |-> probe.clock]
              appended == [probe EXCEPT
                             !.log = appendResponse(@, chatId, record),
                             !.ops = @ + 1,
                             !.op = [kind |-> "append", chatId |-> chatId,
                                     hadLog |-> probe.log[chatId].present,
                                     timer |-> probe.timer],
                             !.journal = Append(@, [chatId |-> chatId, message |-> message,
                                                    at |-> probe.clock, saved |-> FALSE])]
          IN  probe' = scheduleAllResponsesSave(appended, FALSE)
    /\ UNCHANGED pipelineVars

\* case 'reset' of handleCommand, on the response log
ResetCommand ==
    /\ probe.fn = "save"
    /\ probe.ops < MaxSaveOps
    /\ \E chatId \in ChatIds :
          LET cleared == [probe EXCEPT
                            !.log = resetResponses(@, chatId),
                            !.ops = @ + 1,
                            !.op = [kind |-> "reset", chatId |-> chatId,
                                    hadLog |-> probe.log[chatId].present,
                                    timer |-> probe.timer]]
          IN  probe' = IF probe.log[chatId].present
                       THEN scheduleAllResponsesSave(cleared, TRUE)
                       ELSE cleared
    /\ UNCHANGED pipelineVars

\* the callback of setTimeout in scheduleAllResponsesSave
SaveTimerFires ==
    /\ probe.fn = "save"
    /\ probe.timer # 0
    /\ probe.clock >= probe.timer
    /\ probe' = writeAllResponsesToDisk(
                    [probe EXCEPT !.timer = 0,
                                  !.op = [kind |-> "timer", chatId |-> "", hadLog |-> FALSE,
                                          timer |-> probe.timer]])
    /\ UNCHANGED pipelineVars

\* the clock advances; a timer that is due fires before the clock moves on
SaveTick ==
    /\ probe.fn = "save"
    /\ probe.clock < MaxSaveTime
    /\ probe.timer # 0 => probe.clock < probe.timer
    /\ probe' = [probe EXCEPT !.clock = @ + 1,
                              !.op = [kind |-> "tick", chatId |-> "", hadLog |-> FALSE,
                                      timer |-> probe.timer]]
    /\ UNCHANGED pipelineVars

NextSave ==
    \/ AppendResponse
    \/ ResetCommand
    \/ SaveTimerFires
    \/ SaveTick

SpecSave == InitSave /\ [][NextSave]_vars

\* at most one timer is pending (saveAllResponsesTimer is one variable), a pending timer
\* is never replaced, and a timer is set only for a positive debounce
OneTimer ==
    /\ probe.timer # 0 => debounceMsOf(probe.setting) > 0
    /\ probe.op.kind = "append" /\ probe.op.timer # 0 => probe.timer = probe.op.timer

MaxRateCalls == 4

\* the values of RATE_LIMIT_MS the rate limiter is run with
RateLimits == {RATE_LIMIT_MS, RATE_LIMIT_MS + 1}

\* Date.now() when the bot starts: later than any window after the epoch
RateStart == RATE_LIMIT_MS + 1

MaxRateTime == RateStart + RATE_LIMIT_MS + 2

\* a mutant of isRateLimited: a call inside the window restarts the window
isRateLimitedRestarts(cooldowns, chatId, t, limitMs) ==
    [limited |-> t - cooldowns[chatId] < limitMs,
     cooldowns |-> [cooldowns EXCEPT ![chatId] = t]]

\* isRateLimited(chatId) at time t: what it returns, and chatCooldowns afterwards (0: the
\* chat has no stamp, which `chatCooldowns.get(chatId) || 0` reads as 0)
isRateLimited(cooldowns, chatId, t, limitMs) ==
    LET last == cooldowns[chatId]
    IN  IF t - last < limitMs
        THEN [limited |-> TRUE, cooldowns |-> cooldowns]
        ELSE [limited |-> FALSE, cooldowns |-> [cooldowns EXCEPT ![chatId] = t]]

NoCall == [kind |-> "none", chatId |-> "", at |-> 0, limited |-> FALSE,
           before |-> [c \in ChatIds |-> 0]]

InitRate ==
    /\ PipelineIdle
    /\ \E limitMs \in RateLimits :
          probe = [fn |-> "rate", limitMs |-> limitMs, clock |-> RateStart,
                   cooldowns |-> [c \in ChatIds |-> 0], calls |-> 0, call |-> NoCall]

\* a handler calls isRateLimited(chatId)
CallIsRateLimited ==
    /\ probe.fn = "rate"
    /\ probe.calls < MaxRateCalls
    /\ \E chatId \in ChatIds :
          LET result == isRateLimited(probe.cooldowns, chatId, probe.clock, probe.limitMs)
          IN  probe' = [probe EXCEPT
                          !.cooldowns = result.cooldowns,
                          !.calls = @ + 1,
                          !.call = [kind |-> "isRateLimited", chatId |-> chatId,
                                    at |-> probe.clock, limited |-> result.limited,
                                    before |-> probe.cooldowns]]
    /\ UNCHANGED pipelineVars

\* chatCooldowns.set(chatId, Date.now()) of a handler that has sent a reply
StampCooldown ==
    /\ probe.fn = "rate"
    /\ probe.calls < MaxRateCalls
    /\ \E chatId \in ChatIds :
          probe' = [probe EXCEPT
                      !.cooldowns[chatId] = probe.clock,
                      !.calls = @ + 1,
                      !.call = [NoCall EXCEPT !.kind = "stamp"]]
    /\ UNCHANGED pipelineVars

RateTick ==
    /\ probe.fn = "rate"
    /\ probe.clock < MaxRateTime
    /\ probe' = [probe EXCEPT !.clock = @ + 1, !.call = NoCall]
    /\ UNCHANGED pipelineVars

NextRate ==
    \/ CallIsRateLimited
    \/ StampCooldown
    \/ RateTick

SpecRate == InitRate /\ [][NextRate]_vars

\* C23: isRateLimited(chatId) returns true and leaves the chat's stamp unchanged when less
\* than RATE_LIMIT_MS has elapsed since that stamp; otherwise it sets the chat's stamp to
\* the current time and returns false; in both cases the stamps of all other chats are
\* unchanged
C23_RateLimiterContract ==
    probe.fn = "rate" /\ probe.call.kind = "isRateLimited" =>
        LET c == probe.call.chatId
            elapsed == probe.call.at - probe.call.before[c]
        IN  /\ elapsed < probe.limitMs =>
                  probe.call.limited /\ probe.cooldowns[c] = probe.call.before[c]
            /\ elapsed >= probe.limitMs =>
                  ~probe.call.limited /\ probe.cooldowns[c] = probe.call.at
            /\ \A d \in ChatIds \ {c} : probe.cooldowns[d] = probe.call.before[d]

\* a call inside the window of a stamp set at an earlier time, with the other chat stamped
C23_Witness ==
    /\ probe.fn = "rate"
    /\ probe.call.kind = "isRateLimited"
    /\ probe.call.limited
    /\ probe.cooldowns[probe.call.chatId] < probe.call.at
    /\ probe.cooldowns[probe.call.chatId] > 0
    /\ \E d \in ChatIds \ {probe.call.chatId} : probe.cooldowns[d] > 0

(***************************************************************************)
(* The ambient check of group messages                                     *)
(***************************************************************************)
\* the message of s is none of the ambient check's: a private chat, a command, or a group
\* text that is neither a mention-all trigger nor matched by a general rule
NoAmbientMatch(s) ==
    \/ s.chatId \notin GroupChats
    \/ s.cleanMessage = ""
    \/ StartsWith(Chars(s.cleanMessage), COMMAND_PREFIX)
    \/ /\ ~isMentionAllTrigger(Chars(s.cleanMessage))
       /\ getGeneralReply(s.cleanMessage).kind = "null"

\* the locals of the handler invocation of s when the handler reaches the ambient check
AtAmbientCheck(s, cooldowns, t) ==
    [IdleSlot EXCEPT !.pc = "start", !.chatId = s.chatId, !.rawBody = s.rawBody,
                     !.cooling = isRateLimitedAt(cooldowns[s.chatId], t),
                     !.shouldRespond = s.shouldRespond, !.cleanMessage = s.cleanMessage,
                     !.arrival = s.arrival]

\* C24: when a message is none of the ambient check's, tryHandleGeneralMessage sends
\* nothing, records nothing, leaves the cooldowns unchanged and returns false, and the
\* handler goes on exactly as the normal pipeline does on its own, from the same state
C24_AmbientCheckNonExclusive ==
    [][\A m \in Slots :
          received' = received + 1 /\ h'[m] # h[m] /\ NoAmbientMatch(h'[m]) =>
              LET alone == MainPath(AtAmbientCheck(h'[m], chatCooldowns, now), chatCooldowns,
                                    chatCache, allResponses, now)
              IN  /\ h'[m] = alone.slot
                  /\ chatCooldowns' = alone.cooldowns
                  /\ chatCache' = alone.cache
                  /\ allResponses' = alone.responses
                  /\ h'[m].sent = <<>> /\ h'[m].recorded = 0 /\ ~h'[m].stamped
                  /\ h'[m].path \in {"none", "main", "command"}]_vars

\* a group message that names the bot and matches no ambient rule was answered by the
\* predefined rules, and one that does not name the bot was ignored
C24_Witness ==
    /\ \E m \in Slots :
          /\ Done(m)
          /\ h[m].rawBody = "Emponyoo hi"
          /\ h[m].path = "main"
          /\ h[m].source = "predefined"
          /\ h[m].sent = <<SentText("Hello!")>>
    /\ \E m \in Slots :
          /\ Done(m)
          /\ h[m].rawBody = "hello all"
          /\ h[m].sent = <<>>
          /\ h[m].recorded = 0

(***************************************************************************)
(* The generative reply builder                                            *)
(***************************************************************************)
\* C25: getAIReply never throws and never returns an empty reply: on success it returns
\* the non-empty trimmed completion, and on any failure (remote error, non-2xx status,
\* timeout abort, empty completion) the fixed degraded-service text; the pipeline then
\* moderates, delivers and records that reply like any other
C25_GenerativeReplyNeverEmpty ==
    \A m \in Slots :
        /\ h[m].pc = "chat" =>
              \A answer \in ChatAnswers :
                 LET reply == getAIReply(answer)
                     success == answer.outcome = "ok" /\ Trim(Chars(answer.reply)) # <<>>
                 IN  /\ reply # ""
                     /\ success => Chars(reply) = Trim(Chars(answer.reply))
                     /\ ~success => reply = ApologyReply
        /\ h[m].chatAsked /\ h[m].pc \in {"modOut", "send", "done"} =>
              /\ h[m].candidate \in AIReplies \cup {ApologyReply}
              /\ h[m].payload \in {StringPayload(h[m].candidate),
                                    StringPayload(SAFE_FAILURE_MESSAGE)}
              /\ Done(m) /\ ~h[m].threw =>
                    /\ h[m].sent = <<SentText(h[m].payload.text)>>
                    /\ h[m].recorded = 1
                    /\ h[m].source = IF h[m].modOut = "flagged" THEN "safety" ELSE "openai"

\* the chat service failed, and the apology was moderated, sent and recorded
C25_Witness ==
    \E m \in Slots :
        /\ Done(m)
        /\ h[m].chatAsked
        /\ h[m].candidate = ApologyReply
        /\ h[m].modOut = "passed"
        /\ h[m].sent = <<SentText(ApologyReply)>>
        /\ Last(allResponses[h[m].chatId].records).reply = ApologyReply
        /\ Last(allResponses[h[m].chatId].records).source = "openai"

(***************************************************************************)
(* The moderation cache of a deployment that sets MODERATION_CACHE_TTL_MS  *)
(* and MODERATION_CACHE_MAX_ENTRIES (config.js of the repository sets      *)
(* neither, which turns the cache off). probe holds moderationCache, a Map *)
(* in insertion order, as a sequence of [key, result, expiresAt, createdAt]*)
(* with the text the result was computed for, the clock and the last call. *)
(***************************************************************************)
MODERATION_CACHE_TTL_MS == 2

MODERATION_CACHE_MAX_ENTRIES == 2

MaxCacheCalls == 4

MaxCacheTime == MODERATION_CACHE_TTL_MS + 2

\* the texts moderateContent is called with, and its types
CacheTexts ==
    { <<"h","i">>, <<" ","h","i"," ">>, <<"o","u","t","p","u","t",":","h","i">> }

CacheTypes == {"input", "output"}

TypeChars(type) ==
    IF type = "input" THEN <<"i","n","p","u","t">> ELSE <<"o","u","t","p","u","t">>

\* a mutant of getModerationCacheKey: the key is the text
getModerationCacheKeyOfText(text, type) == text

\* getModerationCacheKey(text, type): `${type}:${text}`
getModerationCacheKey(text, type) == TypeChars(type) \o <<":">> \o text

\* the position of the key in the Map, 0 when the Map does not hold it
CachePosition(cache, key) ==
    IF \E i \in DOMAIN cache : cache[i].key = key
    THEN CHOOSE i \in DOMAIN cache : cache[i].key = key
    ELSE 0

RemoveAt(s, i) == SubSeq(s, 1, i - 1) \o SubSeq(s, i + 1, Len(s))

\* getCachedModerationResult(cacheKey) at time t: the entry found (hit), and the Map
\* afterwards
getCachedModerationResult(cache, key, t) ==
    LET i == CachePosition(cache, key)
    IN  IF i = 0 THEN [hit |-> FALSE, entry |-> <<>>, cache |-> cache]
        ELSE IF cache[i].expiresAt < t
        THEN [hit |-> FALSE, entry |-> <<>>, cache |-> RemoveAt(cache, i)]
        ELSE [hit |-> TRUE, entry |-> <<cache[i]>>, cache |-> cache]

\* moderationCache.set(cacheKey, entry): a key the Map holds keeps its position
CacheSet(cache, entry) ==
    LET i == CachePosition(cache, entry.key)
    IN  IF i = 0 THEN Append(cache, entry) ELSE [cache EXCEPT ![i] = entry]

\* a mutant of storeModerationResult: only expired entries are removed
storeModerationResultKeepsOldest(cache, entry, t) ==
    LET inserted == CacheSet(cache, entry)
    IN  IF Len(inserted) <= MODERATION_CACHE_MAX_ENTRIES THEN inserted
        ELSE SelectSeq(inserted, LAMBDA e : ~(e.expiresAt < t))

\* storeModerationResult(cacheKey, result) at time t, entry being what it sets
storeModerationResult(cache, entry, t) ==
    LET inserted == CacheSet(cache, entry)
        live == SelectSeq(inserted, LAMBDA e : ~(e.expiresAt < t))
        oldest == CHOOSE i \in DOMAIN live :
                     /\ \A j \in DOMAIN live : live[i].createdAt <= live[j].createdAt
                     /\ \A j \in 1..(i - 1) : live[j].createdAt > live[i].createdAt
    IN  IF Len(inserted) <= MODERATION_CACHE_MAX_ENTRIES THEN inserted
        ELSE IF Len(live) > MODERATION_CACHE_MAX_ENTRIES /\ live # <<>>
        THEN RemoveAt(live, oldest)
        ELSE live

InitCache ==
    /\ PipelineIdle
    /\ probe = [fn |-> "cache", clock |-> 1, cache |-> <<>>, calls |-> 0,
                call |-> [kind |-> "none", text |-> <<>>, type |-> "", before |-> <<>>,
                          entry |-> <<>>]]

\* moderateContent(text, type) up to `await fetch`: the look-up in the cache
LookupModeration ==
    /\ probe.fn = "cache"
    /\ probe.calls < MaxCacheCalls
    /\ \E text \in CacheTexts, type \in CacheTypes :
          LET found == getCachedModerationResult(
                           probe.cache, getModerationCacheKey(Trim(text), type), probe.clock)
          IN  probe' = [probe EXCEPT
                          !.cache = found.cache,
                          !.calls = @ + 1,
                          !.call = [kind |-> IF found.hit THEN "hit" ELSE "miss",
                                    text |-> text, type |-> type, before |-> probe.cache,
                                    entry |-> found.entry]]
    /\ UNCHANGED pipelineVars

\* moderateContent(text, type) after the service has answered 2xx: the result is stored
StoreModeration ==
    /\ probe.fn = "cache"
    /\ probe.calls < MaxCacheCalls
    /\ \E text \in CacheTexts, type \in CacheTypes, flagged \in BOOLEAN :
          LET entry == [key |-> getModerationCacheKey(Trim(text), type),
                        result |-> [flagged |-> flagged, type |-> type],
                        expiresAt |-> probe.clock + MODERATION_CACHE_TTL_MS,
                        createdAt |-> probe.clock,
                        text |-> Trim(text)]
          IN  probe' = [probe EXCEPT
                          !.cache = storeModerationResult(@, entry, probe.clock),
                          !.calls = @ + 1,
                          !.call = [kind |-> "store", text |-> text, type |-> type,
                                    before |-> probe.cache, entry |-> <<entry>>]]
    /\ UNCHANGED pipelineVars

CacheTick ==
    /\ probe.fn = "cache"
    /\ probe.clock < MaxCacheTime
    /\ probe' = [probe EXCEPT !.clock = @ + 1, !.call.kind = "none"]
    /\ UNCHANGED pipelineVars

NextCache ==
    \/ LookupModeration
    \/ StoreModeration
    \/ CacheTick

SpecCache == InitCache /\ [][NextCache]_vars

\* the entries of a Map that have not expired at time t
LiveEntries(cache, t) == { cache[i] : i \in { j \in DOMAIN cache : cache[j].expiresAt >= t } }

\* C26: after every storeModerationResult call the cache holds at most
\* MODERATION_CACHE_MAX_ENTRIES entries; an insertion that exceeds the cap removes the
\* expired entries and, if the cap is still exceeded, the entry with the oldest creation
\* time; and a look-up for (text, type) only returns a result stored for the same trimmed
\* text and the same type
C26_ModerationCacheBounded ==
    probe.fn = "cache" =>
        LET cache == Range(probe.cache)
            before == Range(probe.call.before)
            stored == probe.call.entry[1]
            inserted == { e \in before : e.key # stored.key } \cup {stored}
            live == LiveEntries(probe.cache, probe.clock)
        IN  /\ Len(probe.cache) <= MODERATION_CACHE_MAX_ENTRIES
            /\ Cardinality(cache) = Len(probe.cache)
            /\ probe.call.kind = "store" =>
                  /\ stored \in cache
                  /\ IF Cardinality(inserted) <= MODERATION_CACHE_MAX_ENTRIES
                     THEN cache = inserted
                     ELSE /\ cache \subseteq { e \in inserted : e.expiresAt >= probe.clock }
                          /\ \A e \in inserted \ cache :
                                \/ e.expiresAt < probe.clock
                                \/ /\ \A kept \in cache : e.createdAt <= kept.createdAt
                                   /\ Cardinality(cache) = MODERATION_CACHE_MAX_ENTRIES
            /\ probe.call.kind = "hit" =>
                  /\ probe.call.entry[1].text = Trim(probe.call.text)
                  /\ probe.call.entry[1].result.type = probe.call.type
                  /\ probe.call.entry[1].expiresAt >= probe.clock

\* the cache was full of entries that had not expired, a result for a new key was stored
\* and the oldest entry went; the cache now holds a flagged result for the input hi and
\* an unflagged one for the output hi
C26_Witness ==
    /\ probe.fn = "cache"
    /\ probe.call.kind = "store"
    /\ Len(probe.call.before) = MODERATION_CACHE_MAX_ENTRIES
    /\ \A i \in DOMAIN probe.call.before : probe.call.before[i].expiresAt >= probe.clock
    /\ CachePosition(probe.call.before, probe.call.entry[1].key) = 0
    /\ probe.call.before[1] \notin Range(probe.cache)
    /\ \E i, j \in DOMAIN probe.cache :
          /\ probe.cache[i].text = <<"h","i">> /\ probe.cache[j].text = <<"h","i">>
          /\ probe.cache[i].result = [flagged |-> TRUE, type |-> "input"]
          /\ probe.cache[j].result = [flagged |-> FALSE, type |-> "output"]

(***************************************************************************)
(* withRetry of the image and moderation services. probe holds the         *)
(* arguments, the loop's attempt counter, the number of invocations of fn, *)
(* the position (call, waiting on the timer, returned, threw), the error   *)
(* caught last and the delay chosen for it.                                *)
(***************************************************************************)
MAX_RETRIES == 2

MaxBaseDelay == 2

RetryableStatuses == {408, 409, 429, 500, 502, 503, 504}

\* error.status and error.response.status, 0 for undefined
ErrorStatuses == RetryableStatuses \cup {0, 400, 501}

ResponseStatuses == {0, 400, 503}

\* error.headers.get('retry-after'): no header (or no headers object), and header values
RetryAfterHeaders == {"none", "", "0", "1", "2", "soon"}

RetryErrors ==
    [status : ErrorStatuses, responseStatus : ResponseStatuses, retryAfter : RetryAfterHeaders]

NoRetryError == [status |-> 0, responseStatus |-> 0, retryAfter |-> "none"]

\* Number(retryAfterHeader)
HeaderNumber(header) ==
    IF header = "0" THEN [nan |-> FALSE, n |-> 0]
    ELSE IF header = "1" THEN [nan |-> FALSE, n |-> 1]
    ELSE IF header = "2" THEN [nan |-> FALSE, n |-> 2]
    ELSE IF header = "" THEN [nan |-> FALSE, n |-> 0]
    ELSE [nan |-> TRUE, n |-> 0]

Pow2(k) == IF k = 0 THEN 1 ELSE IF k = 1 THEN 2 ELSE IF k = 2 THEN 4 ELSE 8

\* error?.status ?? error?.response?.status
StatusOf(error) == IF error.status # 0 THEN error.status ELSE error.responseStatus

\* a mutant of the catch block: one more retry is allowed
withRetryCatchOneMore(error, attempt, maxRetries, baseDelay) ==
    LET isRetryable == StatusOf(error) \in RetryableStatuses
    IN  [rethrow |-> attempt > maxRetries \/ ~isRetryable,
         delayMs |-> baseDelay * Pow2(attempt)]

\* the catch block of withRetry: whether the error is rethrown, and the delay otherwise
withRetryCatch(error, attempt, maxRetries, baseDelay) ==
    LET isRetryable == StatusOf(error) \in RetryableStatuses
        hasHeader == error.retryAfter \notin {"none", ""}
        parsed == HeaderNumber(error.retryAfter)
        \* retryAfterMs && !Number.isNaN(retryAfterMs): null, 0 and NaN are falsy
        useHeader == hasHeader /\ ~parsed.nan /\ parsed.n * 1000 # 0
    IN  [rethrow |-> attempt >= maxRetries \/ ~isRetryable,
         delayMs |-> IF useHeader THEN parsed.n * 1000 ELSE baseDelay * Pow2(attempt)]

InitRetry ==
    /\ PipelineIdle
    /\ \E maxRetries \in 0..MAX_RETRIES, baseDelay \in 1..MaxBaseDelay :
          probe = [fn |-> "withRetry", maxRetries |-> maxRetries, baseDelay |-> baseDelay,
                   attempt |-> 0, calls |-> 0, pc |-> "call", error |-> NoRetryError,
                   delayMs |-> 0]

\* `return await fn()` when fn resolves
FnResolves ==
    /\ probe.fn = "withRetry"
    /\ probe.pc = "call"
    /\ probe' = [probe EXCEPT !.calls = @ + 1, !.pc = "returned"]
    /\ UNCHANGED pipelineVars

\* `await fn()` when fn rejects: the catch block up to `throw error` or the timer
FnRejects ==
    /\ probe.fn = "withRetry"
    /\ probe.pc = "call"
    /\ \E error \in RetryErrors :
          LET caught == withRetryCatch(error, probe.attempt, probe.maxRetries, probe.baseDelay)
          IN  probe' = [probe EXCEPT
                          !.calls = @ + 1,
                          !.error = error,
                          !.pc = IF caught.rethrow THEN "threw" ELSE "waiting",
                          !.delayMs = IF caught.rethrow THEN 0 ELSE caught.delayMs]
    /\ UNCHANGED pipelineVars

\* the timer of the delay fires: attempt += 1 and the loop calls fn again
RetryTimerFires ==
    /\ probe.fn = "withRetry"
    /\ probe.pc = "waiting"
    /\ probe' = [probe EXCEPT !.attempt = @ + 1, !.pc = "call"]
    /\ UNCHANGED pipelineVars

NextRetry ==
    \/ FnResolves
    \/ FnRejects
    \/ RetryTimerFires

\* fn settles and timers fire
SpecRetry == InitRetry /\ [][NextRetry]_vars /\ WF_vars(NextRetry)

\* what holds of withRetry in every state, but for the choice of the delay
RetryBounded ==
    /\ probe.calls <= probe.maxRetries + 1
    /\ probe.pc = "waiting" =>
          /\ StatusOf(probe.error) \in RetryableStatuses
          /\ probe.calls = probe.attempt + 1
    /\ probe.pc = "threw" =>
          \/ StatusOf(probe.error) \notin RetryableStatuses
          \/ probe.calls = probe.maxRetries + 1
    /\ probe.pc \in {"call", "waiting"} => probe.calls <= probe.maxRetries

C28_HistoryRebuildable ==
    \A c \in ChatIds :
        chatCache[c].present =>
            chatCache[c].history = hydrateChatState(allResponses[c].records).history

\* a chat hydrated from a saved log at its cap has recorded an interaction: the log has
\* dropped its oldest record and the history in memory is the tail of what the log holds
C28_Witness ==
    \E c \in ChatIds :
        /\ chatCache[c].present
        /\ Len(allResponses[c].records) = MAX_SAVED_RESPONSES
        /\ allResponses[c].records[1].message # "hi"
        /\ allResponses[c].records[1].message = "pic"
        /\ Len(chatCache[c].history) = MAX_SAVED_HISTORY
        /\ Len(HistoryFrom(allResponses[c].records, 1)) > MAX_SAVED_HISTORY

(***************************************************************************)
(* Quick replies                                                           *)
(***************************************************************************)
\* the records of source predefined, with a reply, that a log holds as quick replies
PredefinedRecords(records) ==
    { [userMessage |-> records[i].message, reply |-> records[i].reply,
       timestamp |-> records[i].timestamp] :
        i \in { j \in DOMAIN records :
                  records[j].source = "predefined" /\ records[j].reply # "" } }

\* C29: no chat starts with quick replies, and every entry a step adds to a chat's
\* quickReplies is the message, reply and time of a record of source predefined in the
\* chat's response log, as loaded or as appended by that step: replies of any other
\* source (general, memory, openai, mention-all, safety, system), a predefined reply
\* replaced by the safe-failure message included, add no entry
C29_QuickRepliesOnlyPredefined ==
    /\ \A c \in ChatIds : chatCache[c].quickReplies = <<>>
    /\ [][\A c \in ChatIds :
              Range(chatCache'[c].quickReplies) \ Range(chatCache[c].quickReplies)
                  \subseteq PredefinedRecords(allResponses[c].records)
                             \cup PredefinedRecords(allResponses'[c].records)]_vars

\* a chat holds a quick reply recorded by a handler, and its log holds a later record of
\* another source, the safe-failure message that replaced a predefined reply or a
\* generative reply, that is no quick reply
C29_Witness ==
    \E c \in ChatIds :
        /\ chatCache[c].present
        /\ \E i \in DOMAIN chatCache[c].quickReplies : chatCache[c].quickReplies[i].timestamp > 0
        /\ \E i \in DOMAIN allResponses[c].records :
              /\ allResponses[c].records[i].source \in {"safety", "openai", "memory", "general"}
              /\ allResponses[c].records[i].timestamp > 0
              /\ allResponses[c].records[i].reply
                    \notin { chatCache[c].quickReplies[j].reply : j \in DOMAIN chatCache[c].quickReplies }

(***************************************************************************)
(* What memory recall quotes                                               *)
(***************************************************************************)
\* the numerator of the score findMemoryAnswer gives entry j of the probed history
RecallScore(j) ==
    entryOverlap(extractKeywords(probe.history[j].content),
                 Range(extractKeywords(probe.message)))

\* C30: the entry memory recall quotes has role user, no user entry has a higher score,
\* no earlier user entry has the same score, and the reply is Earlier you mentioned:
\* followed by the entry's content, unchanged, between double quotes; without a match
\* there is no reply
C30_RecallQuotesEarliestUserEntry ==
    (probe.fn = "findMemoryAnswer" /\ probe.done) =>
        IF probe.result = 0 THEN probe.reply = <<>>
        ELSE LET content == probe.history[probe.result].content
                 reply == probe.reply
             IN  /\ probe.history[probe.result].role = "user"
                 /\ \A j \in DOMAIN probe.history :
                       probe.history[j].role = "user" =>
                           /\ RecallScore(j) <= RecallScore(probe.result)
                           /\ j < probe.result => RecallScore(j) < RecallScore(probe.result)
                 /\ Len(reply) = Len(content) + 25
                 /\ SubSeq(reply, 1, 8) = <<"E","a","r","l","i","e","r"," ">>
                 /\ SubSeq(reply, 9, 12) = <<"y","o","u"," ">>
                 /\ SubSeq(reply, 13, 24) = <<"m","e","n","t","i","o","n","e","d",":"," ","\"">>
                 /\ SubSeq(reply, 25, Len(reply) - 1) = content
                 /\ reply[Len(reply)] = "\""

\* two user entries of different content reach the same score and the first is quoted,
\* capitals and punctuation included
C30_Witness ==
    /\ probe.fn = "findMemoryAnswer"
    /\ probe.done
    /\ probe.result = 1
    /\ Len(probe.history) = 2
    /\ probe.history[2].role = "user"
    /\ probe.history[1].content = <<"T","h","e"," ","C","a","t","!">>
    /\ probe.history[2].content # probe.history[1].content
    /\ RecallScore(2) = RecallScore(1)

(***************************************************************************)
(* Handlers of one chat in flight together                                 *)
(***************************************************************************)
\* the contents of a list of history entries
ContentsOf(entries) == { entries[i].content : i \in DOMAIN entries }

\* C31: handlers of one chat are not serialized, and an interaction is recorded when its
\* handler completes: the step in which sendWithTyping returns to a handler outside the
\* command branch appends the handler's record after all the records the chat's log
\* holds, and its two entries after all the entries of the chat's history, whatever the
\* arrival positions of the handlers in flight; nothing but the oldest records and
\* entries past the caps is dropped
C31_AppendedInCompletionOrder ==
    [][\A m \in Slots :
          (DeliveredNow(m) /\ h[m].path # "command") =>
              LET c == h[m].chatId
              IN  /\ allResponses'[c].records
                        = TrimTo(Append(allResponses[c].records, RecordOf(m)),
                                 MAX_SAVED_RESPONSES)
                  /\ chatCache'[c].history
                        = TrimTo(EffectiveState(c).history \o HistoryOf(RecordOf(m)),
                                 MAX_SAVED_HISTORY)
                  /\ \A k \in Slots \ {m} : h'[k] = h[k]]_vars

\* two messages of one chat were in flight together: both generative requests were built
\* from the same history, which holds neither message, the handler of the message that
\* arrived second completed first, and the log holds both records in that order
C31_Witness ==
    \E m, k \in Slots :
        /\ h[m].chatId = h[k].chatId
        /\ h[m].arrival < h[k].arrival
        /\ h[m].source = "openai" /\ h[k].source = "openai"
        /\ h[m].chatAsked /\ h[k].chatAsked
        /\ h[m].recorded = 1 /\ h[k].recorded = 1
        /\ h[m].cleanMessage # h[k].cleanMessage
        /\ h[m].context = h[k].context
        /\ h[m].context # <<>>
        /\ h[m].cleanMessage \notin ContentsOf(h[k].context)
        /\ h[k].cleanMessage \notin ContentsOf(h[m].context)
        /\ LET records == allResponses[h[m].chatId].records
           IN  /\ Len(records) >= 2
               /\ records[Len(records) - 1].message = h[k].cleanMessage
               /\ records[Len(records)].message = h[m].cleanMessage
               /\ Len(chatCache[h[m].chatId].history) = MAX_SAVED_HISTORY
               /\ chatCache[h[m].chatId].history[1].content = h[k].cleanMessage
               /\ chatCache[h[m].chatId].history[3].content = h[m].cleanMessage

C33_QuotaHoldsInFlight ==
    probe.fn = "image" =>
        \A c \in ImageChats :
            /\ Len(pruneUsage(probe.generated[c], probe.clock)) <= DEFAULT_LIMIT
            /\ pruneUsage(probe.usage[c], probe.clock)
                  = pruneUsage(probe.generated[c], probe.clock)

(***************************************************************************)
(* The !image command against the image service, one request at a time.   *)
(* probe holds the service's usage list of the chat and its clock, the     *)
(* position of the command (moderation, POST /image, image model, response *)
(* on its way, sendWithTyping), the usage list when the command started,   *)
(* the response of the service and the reply of the bot.                   *)
(***************************************************************************)
MaxImageCommands == 3

\* the arguments of !image
ImageArgs == {"", "   ", "pic", "send badword"}

EmptyPromptReply == "Please describe the image you would like me to create (for example, \"a cozy cabin in the snow\")."

UnusableImageReply == "The image service did not return a usable image. Please try again."

ImageFallbackReply == "I couldn't create that image right now. Please try again later."

\* the replies of requestImageGeneration for a 429 with usage, and data.error otherwise
ImageLimitReply == "You have reached the daily image limit of DEFAULT_LIMIT."

ImageServiceErrors ==
    [e502 |-> "Image model returned an empty response.",
     e429 |-> "Image service is rate limited. Please retry shortly.",
     e400 |-> "Invalid image request.",
     e500 |-> "Image service unavailable. Please try again later."]

NoImageResponse == [status |-> 0, body |-> "none"]

\* POST /image after `await withRetry(...)`: the usage list and the response, for what
\* the image model returned (b64_json, a url only, neither) or threw (by status)
imageServiceAnswer(recent, outcome, t) ==
    CASE outcome = "b64" -> [usage |-> Append(recent, t), status |-> 200, body |-> "base64"]
      [] outcome = "url" -> [usage |-> Append(recent, t), status |-> 200, body |-> "url"]
      [] outcome = "empty" -> [usage |-> recent, status |-> 502, body |-> "e502"]
      [] outcome = "error429" -> [usage |-> recent, status |-> 429, body |-> "e429"]
      [] outcome = "error400" -> [usage |-> recent, status |-> 400, body |-> "e400"]
      [] OTHER -> [usage |-> recent, status |-> 500, body |-> "e500"]

\* requestImageGeneration and the rest of handleImageCommand: the reply for the response
\* of the service, or for a fetch that rejected (arrived = FALSE)
imageCommandReply(response, arrived) ==
    IF ~arrived THEN [kind |-> "text", text |-> ImageFallbackReply]
    ELSE IF response.status = 429 /\ response.body = "quota"
    THEN [kind |-> "text", text |-> ImageLimitReply]
    ELSE IF response.status # 200
    THEN [kind |-> "text", text |-> ImageServiceErrors[response.body]]
    ELSE IF response.body = "base64"
    THEN [kind |-> "media", text |-> "Here is what I imagined"]
    ELSE [kind |-> "text", text |-> UnusableImageReply]

InitImageCommand ==
    /\ PipelineIdle
    /\ probe = [fn |-> "imageCommand", clock |-> 0, usage |-> <<>>, commands |-> 0,
                pc |-> "idle", before |-> <<>>, recent |-> <<>>,
                response |-> NoImageResponse,
                reply |-> [kind |-> "none", text |-> ""], delivered |-> FALSE]

\* handleImageCommand up to its first await, or to its return for an empty prompt
StartImageCommand ==
    /\ probe.fn = "imageCommand"
    /\ probe.pc \in {"idle", "done"}
    /\ probe.commands < MaxImageCommands
    /\ \E args \in ImageArgs :
          probe' = [probe EXCEPT
                      !.commands = @ + 1,
                      !.before = probe.usage,
                      !.recent = <<>>,
                      !.response = NoImageResponse,
                      !.delivered = FALSE,
                      !.pc = IF Trim(Chars(args)) = <<>> THEN "send" ELSE "moderation",
                      !.reply = IF Trim(Chars(args)) = <<>>
                                THEN [kind |-> "text", text |-> EmptyPromptReply]
                                ELSE [kind |-> "none", text |-> args]]
    /\ UNCHANGED pipelineVars

\* moderateContent(trimmed, 'image-prompt') returns: refusal, or the POST is sent
ImagePromptModerated ==
    /\ probe.fn = "imageCommand"
    /\ probe.pc = "moderation"
    /\ \E answer \in ModerationAnswers :
          probe' = [probe EXCEPT
                      !.pc = IF moderateContent(probe.reply.text, answer) = "flagged"
                             THEN "send" ELSE "post",
                      !.reply = IF moderateContent(probe.reply.text, answer) = "flagged"
                                THEN [kind |-> "text", text |-> SAFE_FAILURE_MESSAGE]
                                ELSE @]
    /\ UNCHANGED pipelineVars

\* POST /image up to its 429 response or to `await withRetry(...)`
ServicePostImage ==
    /\ probe.fn = "imageCommand"
    /\ probe.pc = "post"
    /\ LET recent == pruneUsage(probe.usage, probe.clock)
       IN  probe' = [probe EXCEPT
                       !.usage = recent,
                       !.recent = recent,
                       !.pc = IF Len(recent) >= DEFAULT_LIMIT THEN "response" ELSE "generating",
                       !.response = IF Len(recent) >= DEFAULT_LIMIT
                                    THEN [status |-> 429, body |-> "quota"]
                                    ELSE @]
    /\ UNCHANGED pipelineVars

\* the image model returns or throws for good, and POST /image answers
ServiceGenerated ==
    /\ probe.fn = "imageCommand"
    /\ probe.pc = "generating"
    /\ \E outcome \in {"b64", "url", "empty", "error", "error429", "error400"} :
          LET answer == imageServiceAnswer(probe.recent, outcome, probe.clock)
          IN  probe' = [probe EXCEPT
                          !.usage = answer.usage,
                          !.pc = "response",
                          !.response = [status |-> answer.status, body |-> answer.body]]
    /\ UNCHANGED pipelineVars

\* fetch resolves with the response, or rejects (the connection is reset); the command
\* handler returns its reply
ImageResponseArrives ==
    /\ probe.fn = "imageCommand"
    /\ probe.pc = "response"
    /\ \E arrived \in BOOLEAN :
          probe' = [probe EXCEPT !.pc = "send",
                                 !.reply = imageCommandReply(probe.response, arrived)]
    /\ UNCHANGED pipelineVars

\* sendWithTyping(message, reply) returns or throws
ImageReplySent ==
    /\ probe.fn = "imageCommand"
    /\ probe.pc = "send"
    /\ \E threw \in BOOLEAN :
          probe' = [probe EXCEPT !.pc = "done", !.delivered = ~threw]
    /\ UNCHANGED pipelineVars

ImageCommandTick ==
    /\ probe.fn = "imageCommand"
    /\ probe.clock < MaxImageTime
    /\ probe' = [probe EXCEPT !.clock = @ + 1]
    /\ UNCHANGED pipelineVars

NextImageCommand ==
    \/ StartImageCommand
    \/ ImagePromptModerated
    \/ ServicePostImage
    \/ ServiceGenerated
    \/ ImageResponseArrives
    \/ ImageReplySent
    \/ ImageCommandTick

SpecImageCommand == InitImageCommand /\ [][NextImageCommand]_vars

\* C34 as stated: an !image request answered with an error or refusal text leaves the
\* usage list of the chat as it was, but for the entries that have left the window; the
\* list grows only by a request for which an image payload is delivered
C34_ErrorsConsumeNoQuota ==
    (probe.fn = "imageCommand" /\ probe.pc = "done") =>
        (probe.reply.kind = "media" /\ probe.delivered)
        \/ pruneUsage(probe.usage, probe.clock) = pruneUsage(probe.before, probe.clock)

(***************************************************************************)
(* The cooldown of one chat over several messages: the guards of the       *)
(* handler, run when the message arrives or after the awaits of a          *)
(* mention-all request that was not served, and the stamp after each       *)
(* reply. probe holds chatCooldowns, the clock, the time the last reply    *)
(* was sent and, per handler in flight, when its message arrived and when  *)
(* its guards ran, with the stamps read then.                              *)
(***************************************************************************)
MaxCooldownMessages == 3

MaxCooldownTime == RateStart + 2

CooldownChat == "g1@g.us"

\* clean messages of the chat that the bot is to answer: a short one, one past the
\* length limit, one with a national id, a mention-all request and a command
CooldownBodies == {"hello", LongText, "123-45-6789", "everyone", "!help"}

IdleHandler ==
    [pc |-> "idle", body |-> "", arrivedAt |-> 0, stampAtArrival |-> 0, replyAtArrival |-> 0,
     checkedAt |-> 0, stampAtCheck |-> 0, guard |-> "none", sentAt |-> 0]

\* a mutant of guardsOf: the rate limit is not tested
guardsOfUnlimited(handler, cooldowns, t) ==
    LET guarded == Guards([IdleSlot EXCEPT !.chatId = CooldownChat,
                                           !.cleanMessage = handler.body],
                          [cooldowns EXCEPT ![CooldownChat] = 0], t)
    IN  [handler |-> [handler EXCEPT
                        !.pc = IF guarded.slot.pc = "send" THEN "send" ELSE "processing",
                        !.guard = guarded.slot.guard,
                        !.checkedAt = t,
                        !.stampAtCheck = cooldowns[CooldownChat]],
         cooldowns |-> guarded.cooldowns]

\* the length, sensitive-data and rate-limit guards of the handler at time t: the
\* handler afterwards, at sendWithTyping with a guard's reply or at input moderation
guardsOf(handler, cooldowns, t) ==
    LET guarded == Guards([IdleSlot EXCEPT !.chatId = CooldownChat,
                                           !.cleanMessage = handler.body],
                          cooldowns, t)
    IN  [handler |-> [handler EXCEPT
                        !.pc = IF guarded.slot.pc = "send" THEN "send" ELSE "processing",
                        !.guard = guarded.slot.guard,
                        !.checkedAt = t,
                        !.stampAtCheck = cooldowns[CooldownChat]],
         cooldowns |-> guarded.cooldowns]

InitCooldown ==
    /\ PipelineIdle
    /\ probe = [fn |-> "cooldown", clock |-> RateStart,
                cooldowns |-> [c \in ChatIds |-> 0], lastReplyAt |-> 0, arrived |-> 0,
                calls |-> [r \in Slots |-> IdleHandler]]

\* a message arrives and the handler runs to its first await
CooldownArrives(r) ==
    /\ probe.fn = "cooldown"
    /\ probe.arrived < MaxCooldownMessages
    /\ probe.calls[r].pc \in {"idle", "done"}
    /\ \E body \in CooldownBodies :
          LET handler == [IdleHandler EXCEPT
                            !.body = body, !.arrivedAt = probe.clock,
                            !.stampAtArrival = probe.cooldowns[CooldownChat],
                            !.replyAtArrival = probe.lastReplyAt]
              guarded == guardsOf(handler, probe.cooldowns, probe.clock)
          IN  IF StartsWith(Chars(body), COMMAND_PREFIX)
              THEN probe' = [probe EXCEPT !.arrived = @ + 1,
                                          !.calls[r] = [handler EXCEPT !.pc = "send",
                                                                       !.guard = "command"]]
              ELSE IF isMentionAllTrigger(Chars(body))
              THEN probe' = [probe EXCEPT !.arrived = @ + 1,
                                          !.calls[r] = [handler EXCEPT !.pc = "getChat"]]
              ELSE probe' = [probe EXCEPT !.arrived = @ + 1,
                                          !.calls[r] = guarded.handler,
                                          !.cooldowns = guarded.cooldowns]
    /\ UNCHANGED pipelineVars

\* message.getChat() settles: the mention-all request is served, or tryHandleMentionAll
\* returns false (getChat threw, the chat is no group) and the guards run
CooldownGetChatSettles(r) ==
    /\ probe.fn = "cooldown"
    /\ probe.calls[r].pc = "getChat"
    /\ \/ probe' = [probe EXCEPT !.calls[r].pc = "send", !.calls[r].guard = "mention-all"]
       \/ LET guarded == guardsOf(probe.calls[r], probe.cooldowns, probe.clock)
          IN  probe' = [probe EXCEPT !.calls[r] = guarded.handler,
                                     !.cooldowns = guarded.cooldowns]
    /\ UNCHANGED pipelineVars

\* moderation and the reply producers have returned: the handler is at sendWithTyping
CooldownProducerReturns(r) ==
    /\ probe.fn = "cooldown"
    /\ probe.calls[r].pc = "processing"
    /\ probe' = [probe EXCEPT !.calls[r].pc = "send"]
    /\ UNCHANGED pipelineVars

\* sendWithTyping returns and the handler stamps the chat, or it throws
CooldownReplySent(r) ==
    /\ probe.fn = "cooldown"
    /\ probe.calls[r].pc = "send"
    /\ \/ probe' = [probe EXCEPT !.calls[r].pc = "done",
                                 !.calls[r].sentAt = probe.clock,
                                 !.cooldowns[CooldownChat] = probe.clock,
                                 !.lastReplyAt = probe.clock]
       \/ probe' = [probe EXCEPT !.calls[r].pc = "done"]
    /\ UNCHANGED pipelineVars

CooldownTick ==
    /\ probe.fn = "cooldown"
    /\ probe.clock < MaxCooldownTime
    /\ probe' = [probe EXCEPT !.clock = @ + 1]
    /\ UNCHANGED pipelineVars

NextCooldown ==
    \/ \E r \in Slots : CooldownArrives(r)
    \/ \E r \in Slots : CooldownGetChatSettles(r)
    \/ \E r \in Slots : CooldownProducerReturns(r)
    \/ \E r \in Slots : CooldownReplySent(r)
    \/ CooldownTick

SpecCooldown == InitCooldown /\ [][NextCooldown]_vars

\* the handlers of non-command messages that are past the guards or past mention-all
Guarded ==
    { r \in Slots : /\ probe.calls[r].pc \in {"processing", "send", "done"}
                    /\ probe.calls[r].guard # "command" }

MaxFileOps == 3

MaxWritesInFlight == 2

\* the write that scheduleAllResponsesSave or the timer started, if it started one
writesStarted(before, after) ==
    IF after.writes > before.writes
    THEN [after EXCEPT !.inflight = Append(before.inflight, after.disk)]
    ELSE after

InitFile ==
    /\ PipelineIdle
    /\ \E setting \in DebounceSettings :
          probe = [fn |-> "file", setting |-> setting, clock |-> 1,
                   log |-> [c \in ChatIds |-> NoResponses],
                   disk |-> [c \in ChatIds |-> NoResponses],
                   timer |-> 0, wrote |-> 0, writes |-> 0, ops |-> 0,
                   journal |-> <<>>,
                   inflight |-> <<>>,
                   file |-> [c \in ChatIds |-> NoResponses],
                   overlapped |-> FALSE]

\* appendResponse(chatId, record) and the scheduleAllResponsesSave() at its end
FileAppend ==
    /\ probe.fn = "file"
    /\ probe.ops < MaxFileOps
    /\ Len(probe.inflight) < MaxWritesInFlight
    /\ \E chatId \in ChatIds :
          LET record == [message |-> SaveMessages[probe.ops + 1], reply |-> "AI reply",
                         source |-> "openai", timestamp |-> probe.clock]
              appended == [probe EXCEPT !.log = appendResponse(@, chatId, record),
                                        !.ops = @ + 1]
          IN  probe' = writesStarted(probe, scheduleAllResponsesSave(appended, FALSE))
    /\ UNCHANGED pipelineVars

\* case 'reset' of handleCommand, on the response log
FileReset ==
    /\ probe.fn = "file"
    /\ probe.ops < MaxFileOps
    /\ Len(probe.inflight) < MaxWritesInFlight
    /\ \E chatId \in ChatIds :
          LET cleared == [probe EXCEPT !.log = resetResponses(@, chatId), !.ops = @ + 1]
          IN  probe' = IF probe.log[chatId].present
                       THEN writesStarted(probe, scheduleAllResponsesSave(cleared, TRUE))
                       ELSE cleared
    /\ UNCHANGED pipelineVars

\* the callback of setTimeout in scheduleAllResponsesSave
FileTimerFires ==
    /\ probe.fn = "file"
    /\ probe.timer # 0
    /\ probe.clock >= probe.timer
    /\ Len(probe.inflight) < MaxWritesInFlight
    /\ probe' = writesStarted(probe, writeAllResponsesToDisk([probe EXCEPT !.timer = 0]))
    /\ UNCHANGED pipelineVars

\* one of the writes in flight completes: the file holds its text
FileWriteCompletes ==
    /\ probe.fn = "file"
    /\ \E i \in DOMAIN probe.inflight :
          probe' = [probe EXCEPT !.file = probe.inflight[i],
                                 !.inflight = RemoveAt(@, i),
                                 !.overlapped = @ \/ Len(probe.inflight) > 1]
    /\ UNCHANGED pipelineVars

FileTick ==
    /\ probe.fn = "file"
    /\ probe.clock < MaxSaveTime
    /\ probe.timer # 0 => probe.clock < probe.timer
    /\ probe' = [probe EXCEPT !.clock = @ + 1]
    /\ UNCHANGED pipelineVars

NextFile ==
    \/ FileAppend
    \/ FileReset
    \/ FileTimerFires
    \/ FileWriteCompletes
    \/ FileTick

SpecFile == InitFile /\ [][NextFile]_vars

\* C36 as stated: once no timer is pending and no write is in flight, the file holds the
\* in-memory response log, also when writes have overlapped
C36_FileEqualsLog ==
    (probe.fn = "file" /\ probe.timer = 0 /\ probe.inflight = <<>>)
        => probe.file = probe.log

(***************************************************************************)
(* The quick replies in memory and the response log                        *)
(***************************************************************************)
\* C37 as stated: in every reachable state the quick replies chatCache holds for a chat
\* equal the quick replies hydrateChatState rebuilds from the chat's response log
C37_QuickRepliesRebuildable ==
    \A c \in ChatIds :
        chatCache[c].present =>
            chatCache[c].quickReplies = hydrateChatState(allResponses[c].records).quickReplies

(***************************************************************************)
(* The shape of the history                                                *)
(***************************************************************************)
\* C38: the history of every chat alternates user and assistant entries and ends with
\* an assistant entry, because each recorded interaction appends its user entry and its
\* assistant entry together; with MAX_SAVED_HISTORY even, as config.js has it, the trim
\* never splits a pair: the history has even length and begins with a user entry
C38_HistoryAlternates ==
    \A c \in ChatIds :
        LET history == chatCache[c].history
        IN  /\ \A i \in DOMAIN history :
                  history[i].role = IF (Len(history) - i) % 2 = 0 THEN "assistant" ELSE "user"
            /\ MAX_SAVED_HISTORY % 2 = 0 =>
                  /\ Len(history) % 2 = 0
                  /\ history # <<>> => history[1].role = "user"

\* two interactions of one chat have been recorded by handlers in flight together, and
\* the history, at its cap, has lost the oldest pair of what the log flattens into
C38_Witness ==
    \E c \in ChatIds :
        /\ \A m \in Slots : h[m].pc = "done" /\ h[m].chatId = c /\ RecordsInteraction(h[m].path)
        /\ Len(chatCache[c].history) = MAX_SAVED_HISTORY
        /\ Len(HistoryFrom(allResponses[c].records, 1)) > MAX_SAVED_HISTORY
        /\ chatCache[c].history[MAX_SAVED_HISTORY].role = "assistant"

(***************************************************************************)
(* moderateContent with its cache and its requests in flight: the look-up, *)
(* the request to POST /moderate, and the store after a 2xx response.      *)
(* probe holds moderationCache and, per call, the text, the type, whether  *)
(* the result came from the cache, and the result.                         *)
(***************************************************************************)
MaxModerateCalls == 3

\* the texts moderated: one the collaborator passes and one it flags
ModerateTexts == {"hi", "send badword"}

IdleModeration ==
    [pc |-> "idle", text |-> "", type |-> "", fromCache |-> FALSE, answer |-> "",
     result |-> [flagged |-> FALSE, type |-> ""]]

InitModerate ==
    /\ PipelineIdle
    /\ probe = [fn |-> "moderate", clock |-> 1, cache |-> <<>>, calls |-> 0,
                requests |-> [r \in Slots |-> IdleModeration]]

\* moderateContent(text, type) up to `await fetch`: a result in the cache is returned
ModerateStarts(r) ==
    /\ probe.fn = "moderate"
    /\ probe.calls < MaxModerateCalls
    /\ probe.requests[r].pc \in {"idle", "done"}
    /\ \E text \in ModerateTexts, type \in CacheTypes :
          LET found == getCachedModerationResult(
                           probe.cache, getModerationCacheKey(Trim(Chars(text)), type),
                           probe.clock)
          IN  probe' = [probe EXCEPT
                          !.cache = found.cache,
                          !.calls = @ + 1,
                          !.requests[r] =
                              IF found.hit
                              THEN [pc |-> "done", text |-> text, type |-> type,
                                    fromCache |-> TRUE, answer |-> "",
                                    result |-> found.entry[1].result]
                              ELSE [IdleModeration EXCEPT !.pc = "fetch", !.text = text,
                                                          !.type = type]]
    /\ UNCHANGED pipelineVars

\* the request settles: a 2xx response gives the result, which is stored; anything else
\* ends in the catch block, which returns the unflagged object and stores nothing
ModerateSettles(r) ==
    /\ probe.fn = "moderate"
    /\ probe.requests[r].pc = "fetch"
    /\ \E answer \in ModerationAnswers :
          LET call == probe.requests[r]
              outcome == ModerationOutcome(call.text, answer)
              result == [flagged |-> outcome.flagged, type |-> call.type]
              entry == [key |-> getModerationCacheKey(Trim(Chars(call.text)), call.type),
                        result |-> result,
                        expiresAt |-> probe.clock + MODERATION_CACHE_TTL_MS,
                        createdAt |-> probe.clock,
                        text |-> Trim(Chars(call.text))]
          IN  probe' = [probe EXCEPT
                          !.cache = IF answer \in {"verdict", "malformed"}
                                    THEN storeModerationResult(@, entry, probe.clock)
                                    ELSE @,
                          !.requests[r] = [call EXCEPT !.pc = "done", !.answer = answer,
                                                       !.result = result]]
    /\ UNCHANGED pipelineVars

ModerateTick ==
    /\ probe.fn = "moderate"
    /\ probe.clock < MaxCacheTime
    /\ probe' = [probe EXCEPT !.clock = @ + 1]
    /\ UNCHANGED pipelineVars

NextModerate ==
    \/ \E r \in Slots : ModerateStarts(r)
    \/ \E r \in Slots : ModerateSettles(r)
    \/ ModerateTick

SpecModerate == InitModerate /\ [][NextModerate]_vars

\* C39 as stated: the cache holds only what the collaborator said of the text, so a text
\* the collaborator flags is never served as unflagged from the cache
C39_FlaggedNeverServedUnflagged ==
    probe.fn = "moderate" =>
        \A r \in Slots :
            (probe.requests[r].pc = "done" /\ probe.requests[r].fromCache
                /\ ModerationFlags(probe.requests[r].text))
                => probe.requests[r].result.flagged

(***************************************************************************)
(* The command branch of the handler on the state of the chats: probe      *)
(* holds chatCooldowns, chatCache and allResponses, and the handlers of    *)
(* command messages that are at `await sendWithTyping`; interactions of    *)
(* other handlers are recorded in between.                                 *)
(***************************************************************************)
MaxCommands == 2

MaxRecorded == 1

CommandBodies == {"!help", "!reset", "!history", "!stats", "!", "!image pic"}

InitCommand ==
    /\ PipelineIdle
    /\ \E saved \in SavedLogs :
          probe = [fn |-> "command", clock |-> 1, handled |-> 0, recorded |-> 0,
                   cooldowns |-> [c \in ChatIds |-> 0],
                   cache |-> [c \in ChatIds |-> NoChatState],
                   responses |-> [c \in ChatIds |->
                                     IF c \in PrivateChats /\ saved # <<>>
                                     THEN [present |-> TRUE,
                                           records |-> TrimTo(saved, MAX_SAVED_RESPONSES)]
                                     ELSE NoResponses],
                   calls |-> [r \in Slots |-> IdleSlot]]

\* a command message arrives: the handler runs handleCommand and is at sendWithTyping
CommandArrives(r) ==
    /\ probe.fn = "command"
    /\ probe.handled < MaxCommands
    /\ probe.calls[r].pc \in {"idle", "done"}
    /\ \E chatId \in ChatIds, body \in CommandBodies :
          LET branch == CommandBranch([IdleSlot EXCEPT !.chatId = chatId, !.rawBody = body,
                                                       !.cleanMessage = body,
                                                       !.shouldRespond = TRUE],
                                      probe.cooldowns, probe.cache, probe.responses)
          IN  probe' = [probe EXCEPT !.handled = @ + 1,
                                     !.calls[r] = branch.slot,
                                     !.cooldowns = branch.cooldowns,
                                     !.cache = branch.cache,
                                     !.responses = branch.responses]
    /\ UNCHANGED pipelineVars

\* sendWithTyping returns and the command branch stamps the chat, or it throws
CommandReplySent(r) ==
    /\ probe.fn = "command"
    /\ probe.calls[r].pc = "send"
    /\ \E threw \in BOOLEAN :
          probe' = [probe EXCEPT
                      !.calls[r].pc = "done",
                      !.calls[r].threw = threw,
                      !.cooldowns[probe.calls[r].chatId] = IF threw THEN @ ELSE probe.clock]
    /\ UNCHANGED pipelineVars

\* the handler of a message that is no command sends its reply and records it
InteractionRecorded ==
    /\ probe.fn = "command"
    /\ probe.recorded < MaxRecorded
    /\ \E chatId \in ChatIds, source \in {"predefined", "openai"} :
          LET message == IF source = "predefined" THEN "hi" ELSE "trail maps"
              reply == IF source = "predefined" THEN "Hello!" ELSE "AI reply"
          IN  probe' = [probe EXCEPT
                          !.recorded = @ + 1,
                          !.cooldowns[chatId] = probe.clock,
                          !.cache = recordInCache(@, probe.responses, chatId, message, reply,
                                                  source, probe.clock),
                          !.responses = recordInResponses(@, chatId, message, reply, source,
                                                          probe.clock)]
    /\ UNCHANGED pipelineVars

CommandTick ==
    /\ probe.fn = "command"
    /\ probe.clock < MaxTime
    /\ probe' = [probe EXCEPT !.clock = @ + 1]
    /\ UNCHANGED pipelineVars

NextCommand ==
    \/ \E r \in Slots : CommandArrives(r)
    \/ \E r \in Slots : CommandReplySent(r)
    \/ InteractionRecorded
    \/ CommandTick

SpecCommand == InitCommand /\ [][NextCommand]_vars

\* C40: handling a command other than reset leaves the response log of every chat as it
\* is and the history and quick replies getChatState gives for every chat as they are (a
\* command that reads them puts the hydrated state into chatCache); handling reset changes
\* nothing of another chat; no command changes a cooldown stamp before its reply is sent,
\* and when the reply has been sent the stamp of its chat, and nothing else, is set
C40_CommandsLeaveStateAlone ==
    [][probe.fn = "command" =>
        \A r \in Slots :
            LET c == probe'.calls[r].chatId
                name == CommandName(Chars(probe'.calls[r].cleanMessage))
            IN  /\ (probe.calls[r].pc # "send" /\ probe'.calls[r].pc = "send") =>
                      /\ probe'.cooldowns = probe.cooldowns
                      /\ \A k \in ChatIds \ {c} :
                            /\ probe'.cache[k] = probe.cache[k]
                            /\ probe'.responses[k] = probe.responses[k]
                      /\ name # <<"r","e","s","e","t">> =>
                            /\ probe'.responses = probe.responses
                            /\ getChatState(probe'.cache, probe'.responses, c).history
                                   = getChatState(probe.cache, probe.responses, c).history
                            /\ getChatState(probe'.cache, probe'.responses, c).quickReplies
                                   = getChatState(probe.cache, probe.responses, c).quickReplies
                /\ (probe.calls[r].pc = "send" /\ probe'.calls[r].pc = "done") =>
                      /\ probe'.cache = probe.cache
                      /\ probe'.responses = probe.responses
                      /\ \A k \in ChatIds \ {c} : probe'.cooldowns[k] = probe.cooldowns[k]
                      /\ probe'.cooldowns[c] =
                             IF probe'.calls[r].threw THEN probe.cooldowns[c] ELSE probe.clock
    ]_vars

\* the history command of a chat with a saved log has been answered after the clock has
\* moved: the chat's state is in chatCache as the log gives it, the log is as it was, the
\* chat is stamped with the time of the send and the other chat has no stamp
C40_Witness ==
    /\ probe.fn = "command"
    /\ \E r \in Slots :
          LET c == probe.calls[r].chatId
          IN  /\ probe.calls[r].pc = "done"
              /\ probe.calls[r].cleanMessage = "!history"
              /\ probe.calls[r].payload = StringPayload(HistoryReply)
              /\ ~probe.calls[r].threw
              /\ probe.recorded = 0
              /\ probe.cache[c].present
              /\ probe.cache[c] = hydrateChatState(probe.responses[c].records)
              /\ Len(probe.responses[c].records) = MAX_SAVED_RESPONSES
              /\ probe.cooldowns[c] = probe.clock
              /\ probe.clock > 1
              /\ \A k \in ChatIds \ {c} : probe.cooldowns[k] = 0

====
